---- MODULE Spec2Model ----
\* Helm multiplex daemon: session registry, router and transport, modelled
\* from daemon/state.ts, daemon/handlers.ts, daemon/chrome.ts and
\* daemon/server.ts, with the startup and shutdown of daemon/index.ts and the
\* tab commands of the extension.  One action per websocket event, timer or
\* resumed await.  The peers are the repository's own programs: an MCP client
\* sends register, unregister, command and keepalive (client/connection.ts);
\* the extension sends hello and the agent messages (extension/websocket.js).
\* The daemon never looks at the sender of an agent message, so those may
\* come from any open connection.
EXTENDS Integers, Sequences, FiniteSets, TLC

\* ---------------------------------------------------------------- bounds
MaxConns == 3      \* websocket connections ever opened
MaxCmds == 2       \* command messages ever received
MaxReq == 4        \* values of requestIdCounter
MaxWin == 1        \* distinct window ids the agent may return
MaxBrowserWin == 3 \* browser windows that may be open together
MaxTabs == 3       \* browser tabs that may be open together
MaxDaemons == 3    \* daemon processes ever started

Conns == 1..MaxConns
CmdIds == 1..MaxCmds
ReqIds == 1..MaxReq
SessionIds == {"s1", "s2"}
WindowIds == 41..(40 + MaxWin)
Commands == {"navigate"}
TabIds == {7}
BrowserWindowIds == 51..(50 + MaxBrowserWin)
BrowserTabIds == 1..MaxTabs
Daemons == 1..MaxDaemons         \* process.pid of each daemon process
Builds == {"tabs", "floating"}   \* the two copies of getTabs in the repository

NoWs == 0          \* null connection handle
NullWindow == 0    \* windowId: null (also a payload without windowId)
NoReqId == 0       \* message without reqId
NoPid == 0         \* no PID file
LapsingSessions == {"s2"}   \* sessions whose keepalives may stop coming
MAX_RETRIES == 5
INITIAL_DELAY_MS == 1000
NoTab == 0             \* tabId === undefined
NoReply == [sessionId |-> "", ok |-> TRUE, tabs |-> {}]
NoSession == ""    \* message without a sessionId
NoParam == "-"     \* params object without a sessionId key
ParamValues == {"s2"}
AgentTexts == {"", "E1"}   \* payload.message of an agent error ("" = absent)

\* ---------------------------------------------------------------- state
VARIABLES
  peers,                \* which program is at the other end of each websocket
  observe,              \* the instruments that record: "agent", "client",
                        \* "count", "hist"
  connState,            \* transport: state of every websocket
  clientSessions,       \* Map sessionId -> ClientSession, in insertion order
  windowCache,          \* Set<sessionId>
  tabRouting,           \* Map tabId -> sessionId, as a set of pairs
  extensionConnection,  \* ws of the bound agent, or NoWs
  pendingRequests,      \* Map reqId -> PendingRequest
  requestIdCounter,
  chromeProcess,        \* TRUE when the daemon has spawned Chrome
  cmds,                 \* the handleCommand invocations and where each awaits
  terminal,             \* per command: response/error messages delivered
  outA,                 \* messages sent to the agent by the last step
  outC,                 \* messages sent to clients by the last step
  lastBranch,           \* silent branch taken by the handler of the last step
  hist,                 \* history of window creation, per session
  build,                \* extension: which copy of tabs.js is loaded
  sessionWindows,       \* extension: Map sessionId -> windowId
  chromeTabs,           \* the browser's open tabs, as pairs <<tabId, windowId>>
  tabsReply,            \* extension: the result of the last get_tabs
  pidFile,              \* the pid written in PID_FILE, or NoPid
  daemons,              \* per daemon process: where its main() stands
  mcp                   \* the MCP client process: connection.ts

vars == <<peers, observe, connState, clientSessions, windowCache, tabRouting,
          extensionConnection, pendingRequests, requestIdCounter,
          chromeProcess, cmds, terminal, outA, outC, lastBranch, hist,
          build, sessionWindows, chromeTabs, tabsReply, pidFile, daemons,
          mcp>>

\* the PID file, the daemon processes and the MCP client of the host
hostVars == <<pidFile, daemons, mcp>>

\* the state of the extension and of the browser
browserVars == <<build, sessionWindows, chromeTabs, tabsReply>>

\* ---------------------------------------------------------------- helpers
RECURSIVE SortedSeq(_)
SortedSeq(S) ==
  IF S = {} THEN <<>>
  ELSE LET m == CHOOSE x \in S : \A y \in S : x <= y
       IN <<m>> \o SortedSeq(S \ {m})

ClientReqId(k) == 100 + k

\* ------------------------------------------------- registry (state.ts)
HasSession(cs, sid) == \E i \in DOMAIN cs : cs[i].sessionId = sid

GetSession(cs, sid) == cs[CHOOSE i \in DOMAIN cs : cs[i].sessionId = sid]

\* expired stands for lastSeen: TRUE when now - lastSeen has grown beyond
\* CLIENT_KEEPALIVE_TIMEOUT_MS
NewSession(sid, ws) ==
  [sessionId |-> sid, ws |-> ws, windowId |-> NullWindow, expired |-> FALSE]

registerClient(cs, sid, ws) ==
  IF HasSession(cs, sid)
  THEN [i \in DOMAIN cs |->
          IF cs[i].sessionId = sid THEN NewSession(sid, ws) ELSE cs[i]]
  ELSE Append(cs, NewSession(sid, ws))

IsOther(s, sid) == s.sessionId # sid

unregisterClientSessions(cs, sid) ==
  SelectSeq(cs, LAMBDA s : IsOther(s, sid))

unregisterClientCache(cs, wc, sid) ==
  IF HasSession(cs, sid) THEN wc \ {sid} ELSE wc

unregisterClientTabs(cs, tr, sid) ==
  IF HasSession(cs, sid) THEN {p \in tr : p[2] # sid} ELSE tr

updateClientLastSeen(cs, sid) ==
  [i \in DOMAIN cs |->
     IF cs[i].sessionId = sid THEN [cs[i] EXCEPT !.expired = FALSE] ELSE cs[i]]

setClientWindowIdSessions(cs, sid, wid) ==
  [i \in DOMAIN cs |->
     IF cs[i].sessionId = sid THEN [cs[i] EXCEPT !.windowId = wid] ELSE cs[i]]

setClientWindowIdCache(cs, wc, sid, wid) ==
  IF HasSession(cs, sid) /\ wid # NullWindow THEN wc \cup {sid} ELSE wc

SessionStatus(wid) == IF wid # NullWindow THEN "ready" ELSE "pending"

getSessionList(cs) ==
  [i \in DOMAIN cs |->
     [sessionId |-> cs[i].sessionId, windowId |-> cs[i].windowId,
      status |-> SessionStatus(cs[i].windowId)]]

\* the loop over clientSessions.values() left out
clearAllWindowIdsSessionsKept(cs) == cs

clearAllWindowIdsSessions(cs) ==
  [i \in DOMAIN cs |-> [cs[i] EXCEPT !.windowId = NullWindow]]

clearAllWindowIdsCacheKept(wc) == wc

clearAllWindowIdsCache(wc) == {}

clearAllWindowIdsTabs(tr) == {}

\* an allocator that hands the ids out in turns
generateRequestIdInTurns(counter) == (counter % 2) + 1

generateRequestId(counter) == counter + 1

\* ------------------------------------------------- messages (handlers.ts)
AgentMsg(type, reqId, sid, command, params, sessions) ==
  [type |-> type, reqId |-> reqId, sessionId |-> sid, command |-> command,
   params |-> params, sessions |-> sessions]

\* { sessionId, ...params }
InjectSessionFirst(params, sid) == IF params # NoParam THEN params ELSE sid

\* { ...params, sessionId }
InjectSession(params, sid) == sid

RouteMsg(reqId, sid, command, params) ==
  AgentMsg("route", reqId, sid, command, InjectSession(params, sid), <<>>)

WelcomeMsg(cs) ==
  AgentMsg("welcome", NoReqId, "", "", NoParam, getSessionList(cs))

SessionsMsg(cs) ==
  AgentMsg("sessions", NoReqId, "", "", NoParam, getSessionList(cs))

\* sendToExtension: nothing is sent when no agent is bound
sendToExtension(ext, msg) == IF ext # NoWs THEN <<msg>> ELSE <<>>

broadcastSessionsToExtension(ext, cs) ==
  IF ext # NoWs THEN sendToExtension(ext, SessionsMsg(cs)) ELSE <<>>

ClientMsg(type, ws, reqId, sid, code, payload, message) ==
  [type |-> type, to |-> ws, reqId |-> reqId, sessionId |-> sid,
   code |-> code, payload |-> payload, message |-> message]

RegisteredMsg(ws, sid) ==
  ClientMsg("registered", ws, NoReqId, sid, "", NullWindow, "")

sendResponseToClientNoSession(ws, reqId, sid, payload) ==
  ClientMsg("response", ws, reqId, "", "", payload, "")

sendResponseToClient(ws, reqId, sid, payload) ==
  ClientMsg("response", ws, reqId, sid, "", payload, "")

sendErrorToClient(ws, reqId, sid, code, message) ==
  ClientMsg("error", ws, reqId, sid, code, NullWindow, message)

\* the text of the agent's error dropped
AgentErrorTextLost(m) == "Unknown error"

\* payload?.message || "Unknown error"
AgentErrorText(m) == IF m = "" THEN "Unknown error" ELSE m

IsTerminal(m) == m.type \in {"response", "error"}

\* what is recorded of a sequence of sent messages
Recorded(wire, msgs) == IF wire \in observe THEN msgs ELSE <<>>

\* ws.send on a websocket that is not open puts nothing on the wire
Delivered(conns, m) == conns[m.to] = "open"

\* the handler has called extensionConnection.ws.send for toAgent and ws.send
\* of each message's connection for toClients, in that order; conns is the
\* state of the websockets at that time
EmitOn(conns, toAgent, toClients) ==
  /\ outA' = Recorded("agent", toAgent)
  /\ outC' = Recorded("client", toClients)
  /\ terminal' =
       IF "count" \in observe
       THEN [k \in CmdIds |->
               terminal[k] + Cardinality({i \in DOMAIN toClients :
                  /\ IsTerminal(toClients[i])
                  /\ toClients[i].reqId = ClientReqId(k)
                  /\ Delivered(conns, toClients[i])})]
       ELSE terminal

Emit(toAgent, toClients) == EmitOn(connState, toAgent, toClients)

\* ------------------------------------------------- handleCommand
\* lazy: this invocation has sent a create_window of its own
IdleCmd == [pc |-> "none", ws |-> NoWs, reqId |-> NoReqId, sessionId |-> "",
            command |-> "", params |-> NoParam, lazy |-> FALSE]

Done(c) == [IdleCmd EXCEPT !.pc = "done"]

\* reqIds that the unfinished handleCommand invocations may still allocate
Reserved(k) ==
  IF cmds[k].pc = "waitAgent" THEN 2
  ELSE IF cmds[k].pc = "waitWindow" THEN 1 ELSE 0

RECURSIVE SumReserved(_)
SumReserved(S) ==
  IF S = {} THEN 0
  ELSE LET k == CHOOSE x \in S : TRUE
       IN Reserved(k) + SumReserved(S \ {k})

Room(n) == requestIdCounter + SumReserved(CmdIds) + n <= MaxReq

\* pendingRequests.set(reqId, { resolve, reject, timeout, sessionId }); cmd is
\* the handleCommand invocation awaiting the promise.  Two history fields:
\* agent is the connection bound when the request was made, stale tells that
\* a hello has been accepted since.
NewPending(sid, k, ext) ==
  [sessionId |-> sid, cmd |-> k, agent |-> ext, stale |-> FALSE]

\* ------------------------------------------------- history of window creation
\* created: sessions with a successful create_window reply processed and, since
\*          then, no unregister, no window_closed and no accepted hello
\* made:    sessions with a successful create_window reply processed since the
\*          last accepted hello
\* round:   as made, and the create_window route was sent since that hello
\* carried: sessions with a create_window outstanding when that hello came
\* gone:    sessions removed from the registry and not registered since
HistReset ==
  [created |-> {}, made |-> {}, round |-> {}, carried |-> {}, gone |-> {}]

\* handleExtensionHello leaves pendingRequests as it is
HistHello(pend, cs) ==
  IF "hist" \in observe
  THEN [HistReset EXCEPT !.carried =
          {pend[r].sessionId : r \in {x \in DOMAIN pend :
                                       cs[pend[x].cmd].pc = "waitWindow"}}]
  ELSE [HistReset EXCEPT !.gone = hist.gone]

HistForget(h, sid) ==
  IF "hist" \in observe THEN [h EXCEPT !.created = @ \ {sid}] ELSE h

\* the sessions sids are unregistered
HistForgetAll(h, sids) ==
  [h EXCEPT !.created = IF "hist" \in observe THEN @ \ sids ELSE @,
            !.gone = IF "gone" \in observe
                     THEN @ \cup {sid \in sids : HasSession(clientSessions, sid)}
                     ELSE @]

\* session sid is registered
HistRegistered(h, sid) == [h EXCEPT !.gone = @ \ {sid}]

HistMade(h, sid, stale) ==
  IF "hist" \in observe
  THEN [h EXCEPT !.created = @ \cup {sid}, !.made = @ \cup {sid},
                  !.round = IF stale THEN @ ELSE @ \cup {sid}]
  ELSE h

\* handleCommand ends, having sent msgs to the client
Finish(k, c, pend, msgs) ==
  /\ pendingRequests' = pend
  /\ requestIdCounter' = requestIdCounter
  /\ cmds' = [cmds EXCEPT ![k] = Done(c)]
  /\ Emit(<<>>, msgs)

\* if (!connected) { sendErrorToClient(...); } without the return: the
\* create_window that follows is rejected and reported as well
NotConnectedNoReturn(c) ==
  <<sendErrorToClient(c.ws, c.reqId, c.sessionId, "EXTENSION_NOT_CONNECTED",
                      "Extension not connected and Chrome failed to start"),
    sendErrorToClient(c.ws, c.reqId, c.sessionId, "WINDOW_CREATION_FAILED",
                      "Extension not connected")>>

\* if (!connected) { sendErrorToClient(...); return; }
NotConnected(c) ==
  <<sendErrorToClient(c.ws, c.reqId, c.sessionId, "EXTENSION_NOT_CONNECTED",
                      "Extension not connected and Chrome failed to start")>>

\* sendCommandToExtension called by handleCommand k, which then awaits
SendCommand(k, c, pend, command, params, stage, failCode) ==
  IF extensionConnection = NoWs
  THEN Finish(k, c, pend,
         <<sendErrorToClient(c.ws, c.reqId, c.sessionId, failCode,
                             "Extension not connected")>>)
  ELSE LET reqId == generateRequestId(requestIdCounter) IN
       /\ requestIdCounter' = reqId
       /\ pendingRequests' =
            pend @@ (reqId :> NewPending(c.sessionId, k, extensionConnection))
       /\ cmds' = [cmds EXCEPT ![k] =
                     [c EXCEPT !.pc = stage,
                               !.lazy = (@ \/ command = "create_window")]]
       /\ Emit(sendToExtension(extensionConnection,
                               RouteMsg(reqId, c.sessionId, command, params)),
               <<>>)

\* lines "Forward command to extension"
ForwardCommand(k, c, pend) ==
  SendCommand(k, c, pend, c.command, c.params, "waitResult", "COMMAND_FAILED")

\* lines "Ensure session has a window (lazy initialization)" onwards
EnsureWindow(k, c, pend) ==
  IF c.sessionId \notin windowCache
  THEN SendCommand(k, c, pend, "create_window", NoParam, "waitWindow",
                   "WINDOW_CREATION_FAILED")
  ELSE ForwardCommand(k, c, pend)

\* the check of result.windowId left out
WindowCreatedAny(ok, payload) == ok

\* the create_window promise resolved and !(result?.windowId) is false
WindowCreated(ok, payload) == ok /\ payload # NullWindow

\* the promise of pending request r settles; handleCommand k resumes
Settle(r, ok, payload, message) ==
  LET e == pendingRequests[r]
      k == e.cmd
      c == cmds[k]
      pend == [x \in DOMAIN pendingRequests \ {r} |-> pendingRequests[x]]
  IN IF c.pc = "waitWindow"
     THEN IF WindowCreated(ok, payload)
          THEN /\ clientSessions' =
                    setClientWindowIdSessions(clientSessions, c.sessionId, payload)
               /\ windowCache' =
                    setClientWindowIdCache(clientSessions, windowCache,
                                           c.sessionId, payload)
               /\ hist' = HistMade(hist, c.sessionId, e.stale)
               /\ ForwardCommand(k, c, pend)
          ELSE /\ UNCHANGED <<clientSessions, windowCache, hist>>
               /\ Finish(k, c, pend,
                    <<sendErrorToClient(c.ws, c.reqId, c.sessionId,
                        "WINDOW_CREATION_FAILED",
                        IF ok THEN "Window creation failed: no windowId returned"
                        ELSE message)>>)
     ELSE /\ UNCHANGED <<clientSessions, windowCache, hist>>
          /\ IF ok
             THEN Finish(k, c, pend,
                    <<sendResponseToClient(c.ws, c.reqId, c.sessionId, payload)>>)
             ELSE Finish(k, c, pend,
                    <<sendErrorToClient(c.ws, c.reqId, c.sessionId,
                                        "COMMAND_FAILED", message)>>)

\* ---------------------------------------------------------------- Init
OneClient == [w \in Conns |-> IF w = 1 THEN "client" ELSE "agent"]

TwoClients == [w \in Conns |-> IF w <= 2 THEN "client" ELSE "agent"]

\* the browser before any session window exists
BrowserStart ==
  /\ sessionWindows = [sid \in SessionIds |-> NullWindow]
  /\ chromeTabs = {}
  /\ tabsReply = NoReply

\* the MCP client registered with the daemon: onopen has run and the
\* daemon's "registered" has come
McpUp ==
  [pc |-> "registered", wasConnected |-> TRUE, connectionFailed |-> FALSE,
   tryDaemonStart |-> TRUE, retryCount |-> 0, delay |-> 0, pending |-> 0,
   isRegistered |-> TRUE]

\* no MCP client process runs
ClientStart ==
  mcp = [McpUp EXCEPT !.pc = "off", !.wasConnected = FALSE,
                      !.isRegistered = FALSE]

\* the daemon after construction
Boot ==
  /\ connState = [w \in Conns |-> "new"]
  /\ clientSessions = <<>>
  /\ windowCache = {}
  /\ tabRouting = {}
  /\ extensionConnection = NoWs
  /\ pendingRequests = <<>>
  /\ requestIdCounter = 0
  /\ chromeProcess = FALSE
  /\ cmds = [k \in CmdIds |-> IdleCmd]
  /\ terminal = [k \in CmdIds |-> 0]
  /\ outA = <<>>
  /\ outC = <<>>
  /\ lastBranch = ""
  /\ hist = HistReset

\* main() of one daemon process; seen is the pid it has read from PID_FILE
DaemonAt(pc) == [pc |-> pc, seen |-> NoPid]

\* daemon 1 has started on a host without a PID file and serves
Running ==
  /\ pidFile = 1
  /\ daemons = [d \in Daemons |->
                  IF d = 1 THEN DaemonAt("serving") ELSE DaemonAt("new")]

Start ==
  /\ Boot
  /\ Running
  /\ peers = OneClient
  /\ build = "tabs"
  /\ BrowserStart
  /\ ClientStart

Init == Start /\ observe = {"agent", "client"}

\* ---------------------------------------------------------------- event loop
\* Every handler runs to completion in one turn of the event loop.  outA, outC
\* and lastBranch show what the turn did; Return ends the turn, and the next
\* event is taken only then.
Idle == outA = <<>> /\ outC = <<>> /\ lastBranch = ""

Return ==
  /\ ~Idle
  /\ lastBranch # "shutdown"
  /\ outA' = <<>>
  /\ outC' = <<>>
  /\ lastBranch' = ""
  /\ UNCHANGED <<hostVars, browserVars, peers, observe, hist, connState, clientSessions, windowCache,
                 tabRouting, extensionConnection, pendingRequests,
                 requestIdCounter, chromeProcess, cmds, terminal>>

\* ---------------------------------------------------------------- transport
\* websocket.open
OpenConn ==
  \E w \in Conns :
    /\ Idle
    /\ connState[w] = "new"
    /\ \A v \in Conns : v < w => connState[v] # "new"
    /\ connState' = [connState EXCEPT ![w] = "open"]
    /\ Emit(<<>>, <<>>)
    /\ lastBranch' = ""
    /\ UNCHANGED <<hostVars, browserVars, peers, observe, hist, clientSessions, windowCache, tabRouting,
                   extensionConnection, pendingRequests, requestIdCounter,
                   chromeProcess, cmds>>

\* the error sent for request r when the agent connection closes
DisconnectError(r) ==
  LET c == cmds[pendingRequests[r].cmd] IN
  sendErrorToClient(c.ws, c.reqId, c.sessionId,
    IF c.pc = "waitWindow" THEN "WINDOW_CREATION_FAILED" ELSE "COMMAND_FAILED",
    "Extension disconnected")

\* for (const [reqId, pending] of pendingRequests) { ... pending.reject(...) }
RejectedOnCloseNone(pend) == {}

RejectedOnClose(pend) == DOMAIN pend

\* websocket.close, branch: this was the extension
CloseAgent(w) ==
  /\ Idle
  /\ connState[w] \in {"open", "closing4000", "broken"}
  /\ extensionConnection = w
  /\ connState' = [connState EXCEPT ![w] = "closed"]
  /\ LET rejected == RejectedOnClose(pendingRequests)
         order == SortedSeq(rejected)
         awaiting == {pendingRequests[r].cmd : r \in rejected}
     IN /\ pendingRequests' = [r \in DOMAIN pendingRequests \ rejected |->
                                 pendingRequests[r]]
        /\ EmitOn(connState', <<>>,
                  [i \in DOMAIN order |-> DisconnectError(order[i])])
        /\ cmds' = [k \in CmdIds |->
                      IF k \in awaiting THEN Done(cmds[k]) ELSE cmds[k]]
  /\ extensionConnection' = NoWs
  /\ lastBranch' = ""
  /\ UNCHANGED <<hostVars, browserVars, peers, observe, hist, clientSessions, windowCache, tabRouting,
                 requestIdCounter, chromeProcess>>

\* the first session of the Map whose ws is w
FirstSessionOf(cs, w) ==
  cs[CHOOSE i \in DOMAIN cs :
       /\ cs[i].ws = w
       /\ \A j \in DOMAIN cs : j < i => cs[j].ws # w].sessionId

\* websocket.close, branch: check if this was a client session
CloseClient(w) ==
  /\ Idle
  /\ connState[w] \in {"open", "closing4000"}
  /\ extensionConnection # w
  /\ connState' = [connState EXCEPT ![w] = "closed"]
  /\ IF \E i \in DOMAIN clientSessions : clientSessions[i].ws = w
     THEN LET sid == FirstSessionOf(clientSessions, w) IN
          /\ clientSessions' = unregisterClientSessions(clientSessions, sid)
          /\ windowCache' = unregisterClientCache(clientSessions, windowCache, sid)
          /\ tabRouting' = unregisterClientTabs(clientSessions, tabRouting, sid)
          /\ hist' = HistForgetAll(hist, {sid})
          /\ lastBranch' = ""
     ELSE /\ UNCHANGED <<clientSessions, windowCache, tabRouting, hist>>
          /\ lastBranch' = ""
  /\ Emit(<<>>, <<>>)
  /\ UNCHANGED <<hostVars, browserVars, peers, observe, extensionConnection, pendingRequests, requestIdCounter,
                 chromeProcess, cmds>>

\* ---------------------------------------------------------------- clients
\* message type "register": handleRegister
Register(w, sid) ==
  /\ Idle
  /\ connState[w] = "open" /\ peers[w] = "client"
  /\ clientSessions' = registerClient(clientSessions, sid, w)
  /\ hist' = HistRegistered(hist, sid)
  /\ Emit(broadcastSessionsToExtension(extensionConnection, clientSessions'),
          <<RegisteredMsg(w, sid)>>)
  /\ lastBranch' = ""
  /\ UNCHANGED <<hostVars, browserVars, peers, observe, connState, windowCache, tabRouting, extensionConnection,
                 pendingRequests, requestIdCounter, chromeProcess, cmds>>

\* message type "unregister": handleUnregister
Unregister(w, sid) ==
  /\ Idle
  /\ connState[w] = "open" /\ peers[w] = "client"
  /\ Room(1)
  /\ LET closeIt == /\ HasSession(clientSessions, sid)
                    /\ GetSession(clientSessions, sid).windowId # NullWindow
                    /\ extensionConnection # NoWs
         reqId == generateRequestId(requestIdCounter)
     IN /\ clientSessions' = unregisterClientSessions(clientSessions, sid)
        /\ windowCache' = unregisterClientCache(clientSessions, windowCache, sid)
        /\ tabRouting' = unregisterClientTabs(clientSessions, tabRouting, sid)
        /\ hist' = HistForgetAll(hist, {sid})
        /\ requestIdCounter' = IF closeIt THEN reqId ELSE requestIdCounter
        /\ Emit((IF closeIt
                  THEN sendToExtension(extensionConnection,
                         AgentMsg("route", reqId, sid, "close_window", sid, <<>>))
                  ELSE <<>>)
                 \o broadcastSessionsToExtension(extensionConnection,
                                                 clientSessions'),
                <<>>)
  /\ lastBranch' = ""
  /\ UNCHANGED <<hostVars, browserVars, peers, observe, connState, extensionConnection, pendingRequests,
                 chromeProcess, cmds>>

\* message type "keepalive": updateClientLastSeen.  The extension sends
\* keepalive too, without a sessionId.
Keepalive(w, sid) ==
  /\ Idle
  /\ connState[w] = "open"
  /\ peers[w] = "agent" <=> sid = NoSession
  /\ clientSessions' = updateClientLastSeen(clientSessions, sid)
  /\ Emit(<<>>, <<>>)
  /\ lastBranch' = ""
  /\ UNCHANGED <<hostVars, browserVars, peers, observe, hist, connState, windowCache, tabRouting,
                 extensionConnection, pendingRequests, requestIdCounter,
                 chromeProcess, cmds>>

\* time passes: now - lastSeen of session sid grows beyond the timeout
Elapse(sid) ==
  /\ Idle
  /\ HasSession(clientSessions, sid)
  /\ ~GetSession(clientSessions, sid).expired
  /\ clientSessions' =
       [i \in DOMAIN clientSessions |->
          IF clientSessions[i].sessionId = sid
          THEN [clientSessions[i] EXCEPT !.expired = TRUE]
          ELSE clientSessions[i]]
  /\ Emit(<<>>, <<>>)
  /\ lastBranch' = ""
  /\ UNCHANGED <<hostVars, browserVars, peers, observe, hist, connState, windowCache, tabRouting,
                 extensionConnection, pendingRequests, requestIdCounter,
                 chromeProcess, cmds>>

\* the comparison left out: every session is taken for stale
IsStaleAny(s) == TRUE

\* if (now - session.lastSeen > CLIENT_KEEPALIVE_TIMEOUT_MS)
IsStale(s) == s.expired

\* the test of lastSeen left out: the oldest entry of the Map is evicted
StaleSessionsOldest(cs) == IF cs = <<>> THEN {} ELSE {cs[1].sessionId}

StaleSessions(cs) == {cs[i].sessionId : i \in {j \in DOMAIN cs : IsStale(cs[j])}}

\* one run of the callback of staleCheckInterval: unregisterClient for every
\* stale session
SweepSessions(cs) ==
  SelectSeq(cs, LAMBDA s : s.sessionId \notin StaleSessions(cs))

SweepCache(cs, wc) == wc \ StaleSessions(cs)

SweepTabs(cs, tr) == {p \in tr : p[2] \notin StaleSessions(cs)}

\* the callback of staleCheckInterval
StaleCheck ==
  /\ Idle
  /\ LET stale == StaleSessions(clientSessions) IN
     /\ clientSessions' = SweepSessions(clientSessions)
     /\ windowCache' = SweepCache(clientSessions, windowCache)
     /\ tabRouting' = SweepTabs(clientSessions, tabRouting)
     /\ hist' = HistForgetAll(hist, stale)
     /\ lastBranch' = IF stale # {} THEN "stale_removed" ELSE ""
  /\ Emit(<<>>, <<>>)
  /\ UNCHANGED <<hostVars, browserVars, peers, observe, connState, extensionConnection,
                 pendingRequests, requestIdCounter, chromeProcess, cmds>>

\* message type "command": handleCommand up to its first await
Command(w, sid, command, params) ==
  \E k \in CmdIds :
    /\ Idle
    /\ connState[w] = "open" /\ peers[w] = "client"
    /\ cmds[k].pc = "none"
    /\ \A j \in CmdIds : j < k => cmds[j].pc # "none"
    /\ Room(2)
    /\ LET c == [pc |-> "start", ws |-> w, reqId |-> ClientReqId(k),
                 sessionId |-> sid, command |-> command, params |-> params,
                 lazy |-> FALSE]
       IN IF extensionConnection = NoWs
          THEN \E found \in BOOLEAN :
                 \* ensureExtensionConnected -> startChrome
                 /\ chromeProcess' = (chromeProcess \/ found)
                 /\ IF chromeProcess'
                    THEN /\ cmds' = [cmds EXCEPT ![k] = [c EXCEPT !.pc = "waitAgent"]]
                         /\ Emit(<<>>, <<>>)
                         /\ UNCHANGED <<pendingRequests, requestIdCounter>>
                    ELSE Finish(k, c, pendingRequests, NotConnected(c))
          ELSE /\ EnsureWindow(k, c, pendingRequests)
               /\ UNCHANGED chromeProcess
    /\ lastBranch' = ""
    /\ UNCHANGED <<hostVars, browserVars, peers, observe, hist, connState, clientSessions, windowCache, tabRouting,
                   extensionConnection>>
  
\* ensureExtensionConnected: the polling loop sees the agent bound
PollAgent(k) ==
  /\ Idle
  /\ cmds[k].pc = "waitAgent"
  /\ extensionConnection # NoWs
  /\ EnsureWindow(k, cmds[k], pendingRequests)
  /\ lastBranch' = ""
  /\ UNCHANGED <<hostVars, browserVars, peers, observe, hist, connState, clientSessions, windowCache, tabRouting,
                 extensionConnection, chromeProcess>>

\* ensureExtensionConnected: the loop ends after EXTENSION_CONNECT_TIMEOUT_MS
ConnectTimeout(k) ==
  /\ Idle
  /\ cmds[k].pc = "waitAgent"
  /\ Finish(k, cmds[k], pendingRequests, NotConnected(cmds[k]))
  /\ lastBranch' = ""
  /\ UNCHANGED <<hostVars, browserVars, peers, observe, hist, connState, clientSessions, windowCache, tabRouting,
                 extensionConnection, chromeProcess>>

\* the setTimeout of sendCommandToExtension fires
RequestTimeout(r) ==
  /\ Idle
  /\ r \in DOMAIN pendingRequests
  /\ Settle(r, FALSE, NullWindow, "Request timed out")
  /\ lastBranch' = ""
  /\ UNCHANGED <<hostVars, browserVars, peers, observe, connState, tabRouting, extensionConnection, chromeProcess>>

\* ---------------------------------------------------------------- agent
\* if (extensionConnection && extensionConnection.ws !== ws)
AlreadyConnectedNever(ext, w) == FALSE

AlreadyConnected(ext, w) == ext # NoWs /\ ext # w

\* message type "hello" while another connection is the bound agent
HelloDuplicate(w) ==
  /\ Idle
  /\ connState[w] = "open" /\ peers[w] = "agent"
  /\ AlreadyConnected(extensionConnection, w)
  /\ connState' = [connState EXCEPT ![w] = "closing4000"]
  /\ Emit(<<>>, <<>>)
  /\ lastBranch' = "hello_rejected"
  /\ UNCHANGED <<hostVars, browserVars, peers, observe, hist, clientSessions, windowCache, tabRouting,
                 extensionConnection, pendingRequests, requestIdCounter,
                 chromeProcess, cmds>>

\* message type "hello": handleExtensionHello
Hello(w) ==
  /\ Idle
  /\ connState[w] = "open" /\ peers[w] = "agent"
  /\ ~AlreadyConnected(extensionConnection, w)
  /\ clientSessions' = clearAllWindowIdsSessions(clientSessions)
  /\ windowCache' = clearAllWindowIdsCache(windowCache)
  /\ tabRouting' = clearAllWindowIdsTabs(tabRouting)
  /\ extensionConnection' = w
  /\ pendingRequests' = [r \in DOMAIN pendingRequests |->
                           [pendingRequests[r] EXCEPT !.stale = TRUE]]
  /\ hist' = HistHello(pendingRequests, cmds)
  /\ Emit(sendToExtension(extensionConnection', WelcomeMsg(clientSessions'))
          \o broadcastSessionsToExtension(extensionConnection', clientSessions'),
          <<>>)
  /\ lastBranch' = ""
  /\ UNCHANGED <<hostVars, browserVars, peers, observe, connState, requestIdCounter, chromeProcess, cmds>>

\* some connection is open to carry an inbound message (the handlers below
\* never look at the sending ws)
SomeOpen == \E w \in Conns : connState[w] = "open"

\* if (!reqId) return; const pending = pendingRequests.get(reqId); if (pending)
IsPending(pend, r) == r # NoReqId /\ r \in DOMAIN pend

\* a reply nobody waits for is reported to every client
DropReplyToAll ==
  /\ Emit(<<>>, [i \in DOMAIN clientSessions |->
                  sendErrorToClient(clientSessions[i].ws, NoReqId,
                                    clientSessions[i].sessionId,
                                    "COMMAND_FAILED", "Unknown request")])
  /\ lastBranch' = "unknown_reqId"
  /\ UNCHANGED <<hostVars, browserVars, peers, observe, hist, connState, clientSessions, windowCache,
                 tabRouting, extensionConnection, pendingRequests,
                 requestIdCounter, chromeProcess, cmds>>

\* handleRouteResult for a reqId that is not in the pending table
DropReply ==
  /\ Emit(<<>>, <<>>)
  /\ lastBranch' = "unknown_reqId"
  /\ UNCHANGED <<hostVars, browserVars, peers, observe, hist, connState, clientSessions, windowCache, tabRouting,
                 extensionConnection, pendingRequests, requestIdCounter,
                 chromeProcess, cmds>>

\* handleRouteResult for a pending reqId
Reply(r, ok, payload, text) ==
  /\ Settle(r, ok, payload, text)
  /\ lastBranch' = ""
  /\ UNCHANGED <<hostVars, browserVars, peers, observe, connState, tabRouting, extensionConnection, chromeProcess>>

\* message type "route_result": handleRouteResult
RouteResult(r) ==
  /\ Idle
  /\ SomeOpen
  /\ IF IsPending(pendingRequests, r)
     THEN \E payload \in WindowIds \cup {NullWindow} : Reply(r, TRUE, payload, "")
     ELSE DropReply

\* message type "error": handleExtensionError -> handleRouteResult
AgentError(r) ==
  /\ Idle
  /\ SomeOpen
  /\ IF IsPending(pendingRequests, r)
     THEN \E text \in AgentTexts :
            Reply(r, FALSE, NullWindow, AgentErrorText(text))
     ELSE DropReply

\* message type "tab_closed": handleTabClosed
TabClosed(t) ==
  /\ Idle
  /\ SomeOpen
  /\ tabRouting' = {p \in tabRouting : p[1] # t}
  /\ Emit(<<>>, <<>>)
  /\ lastBranch' = ""
  /\ UNCHANGED <<hostVars, browserVars, peers, observe, hist, connState, clientSessions, windowCache, extensionConnection,
                 pendingRequests, requestIdCounter, chromeProcess, cmds>>

\* message type "window_closed": handleWindowClosed
WindowClosed(sid) ==
  /\ Idle
  /\ SomeOpen
  /\ clientSessions' = setClientWindowIdSessions(clientSessions, sid, NullWindow)
  /\ windowCache' = setClientWindowIdCache(clientSessions, windowCache, sid,
                                           NullWindow)
  /\ hist' = HistForget(hist, sid)
  /\ Emit(<<>>, <<>>)
  /\ lastBranch' = ""
  /\ UNCHANGED <<hostVars, browserVars, peers, observe, connState, tabRouting, extensionConnection, pendingRequests,
                 requestIdCounter, chromeProcess, cmds>>

\* ---------------------------------------------------------------- Next
Next ==
  \/ OpenConn
  \/ \E w \in Conns : CloseAgent(w)
  \/ \E w \in Conns : CloseClient(w)
  \/ \E w \in Conns, sid \in SessionIds : Register(w, sid)
  \/ \E w \in Conns, sid \in SessionIds : Unregister(w, sid)
  \/ \E w \in Conns, sid \in SessionIds, cm \in Commands, p \in ParamValues :
       Command(w, sid, cm, p)
  \/ \E w \in Conns, sid \in SessionIds \cup {NoSession} : Keepalive(w, sid)
  \/ \E sid \in LapsingSessions : Elapse(sid)
  \/ StaleCheck
  \/ \E k \in CmdIds : PollAgent(k)
  \/ \E k \in CmdIds : ConnectTimeout(k)
  \/ \E r \in ReqIds : RequestTimeout(r)
  \/ \E w \in Conns : HelloDuplicate(w)
  \/ \E w \in Conns : Hello(w)
  \/ \E r \in ReqIds \cup {NoReqId} : RouteResult(r)
  \/ \E r \in ReqIds \cup {NoReqId} : AgentError(r)
  \/ \E t \in TabIds : TabClosed(t)
  \/ \E sid \in SessionIds : WindowClosed(sid)
  \/ Return

Spec == Init /\ [][Next]_vars

\* the same daemon, with the history of window creation recorded instead of
\* the messages to the clients
HistInit == Start /\ observe = {"agent", "hist"}

HistSpec == HistInit /\ [][Next]_vars

\* the same daemon, with the removed sessions recorded
GoneInit == Start /\ observe = {"gone"}

GoneSpec == GoneInit /\ [][Next]_vars

\* the same daemon with one or with two client connections, nothing recorded
CrossInit ==
  /\ Boot
  /\ Running
  /\ peers \in {OneClient, TwoClients}
  /\ build = "tabs"
  /\ BrowserStart
  /\ ClientStart
  /\ observe = {}

CrossSpec == CrossInit /\ [][Next]_vars

\* ---------------------------------------------------------------- extension
\* The extension at the other end of the agent connection, for a daemon with
\* both sessions registered.  Each action is one route handled by the
\* extension together with the daemon's processing of its result, or one
\* event of the browser.
daemonVars == <<peers, observe, connState, tabRouting, extensionConnection,
                pendingRequests, requestIdCounter, chromeProcess, cmds,
                terminal, outA, outC, lastBranch, hist, pidFile, daemons,
                mcp>>

\* sessionWindows.get(sessionId) || null
getWindowIdForSession(sw, sid) == IF sid = NoSession THEN NullWindow ELSE sw[sid]

\* chrome.tabs.query(windowId ? { windowId } : {})
TabsQuery(tabs, wid) ==
  IF wid # NullWindow THEN {t \in tabs : t[2] = wid} ELSE tabs

\* getTabs of extension/floating.js: throws ERR_NO_WINDOW without a window
getTabsFloating(sw, tabs, sid) ==
  LET wid == getWindowIdForSession(sw, sid) IN
  IF sid # NoSession /\ wid = NullWindow
  THEN [sessionId |-> sid, ok |-> FALSE, tabs |-> {}]
  ELSE [sessionId |-> sid, ok |-> TRUE, tabs |-> TabsQuery(tabs, wid)]

\* getTabs of tabs.js: warns and returns all tabs without a window
getTabs(sw, tabs, sid) ==
  [sessionId |-> sid, ok |-> TRUE,
   tabs |-> TabsQuery(tabs, getWindowIdForSession(sw, sid))]

WindowOpen(tabs, wid) == \E t \in tabs : t[2] = wid

FreeTabs(tabs) == {t \in BrowserTabIds : \A x \in tabs : x[1] # t}

\* the id chrome gives to the next tab
NextTab(tabs) == CHOOSE t \in FreeTabs(tabs) : \A u \in FreeTabs(tabs) : t <= u

\* route create_window: createSessionWindow, then the daemon records the
\* windowId of the result (handleCommand, setClientWindowId)
ExtCreateWindow(sid) ==
  /\ HasSession(clientSessions, sid)
  /\ sid \notin windowCache
  /\ \E wid \in BrowserWindowIds :
       /\ IF sessionWindows[sid] # NullWindow
             /\ WindowOpen(chromeTabs, sessionWindows[sid])
          THEN /\ wid = sessionWindows[sid]
               /\ UNCHANGED <<sessionWindows, chromeTabs>>
          ELSE /\ ~WindowOpen(chromeTabs, wid)
               /\ FreeTabs(chromeTabs) # {}
               /\ chromeTabs' = chromeTabs \cup {<<NextTab(chromeTabs), wid>>}
               /\ sessionWindows' = [sessionWindows EXCEPT ![sid] = wid]
       /\ clientSessions' = setClientWindowIdSessions(clientSessions, sid, wid)
       /\ windowCache' = setClientWindowIdCache(clientSessions, windowCache,
                                                sid, wid)
  /\ tabsReply' = NoReply
  /\ UNCHANGED <<daemonVars, build>>

\* route new_tab, forwarded for a session of WindowCache: newTab
ExtNewTab(sid) ==
  /\ sid \in windowCache
  /\ FreeTabs(chromeTabs) # {}
  /\ \E wid \in BrowserWindowIds :
       /\ IF sessionWindows[sid] # NullWindow
          THEN wid = sessionWindows[sid]
          ELSE \* chrome.tabs.create without windowId: the current window
               WindowOpen(chromeTabs, wid)
       /\ chromeTabs' = chromeTabs \cup {<<NextTab(chromeTabs), wid>>}
  /\ tabsReply' = NoReply
  /\ UNCHANGED <<daemonVars, build, sessionWindows, clientSessions, windowCache>>

\* route get_tabs, forwarded for a session of WindowCache
ExtGetTabs(sid) ==
  /\ sid \in windowCache
  /\ tabsReply' = IF build = "floating"
                  THEN getTabsFloating(sessionWindows, chromeTabs, sid)
                  ELSE getTabs(sessionWindows, chromeTabs, sid)
  /\ UNCHANGED <<daemonVars, build, sessionWindows, chromeTabs,
                 clientSessions, windowCache>>

\* the user closes window wid: chrome.windows.onRemoved, then the daemon's
\* handleWindowClosed for every session of that window
ExtWindowRemoved(wid) ==
  /\ WindowOpen(chromeTabs, wid)
  /\ chromeTabs' = {t \in chromeTabs : t[2] # wid}
  /\ sessionWindows' = [sid \in SessionIds |->
                          IF sessionWindows[sid] = wid THEN NullWindow
                          ELSE sessionWindows[sid]]
  /\ clientSessions' =
       [i \in DOMAIN clientSessions |->
          IF sessionWindows[clientSessions[i].sessionId] = wid
          THEN [clientSessions[i] EXCEPT !.windowId = NullWindow]
          ELSE clientSessions[i]]
  /\ tabsReply' = NoReply
  /\ UNCHANGED <<daemonVars, build, windowCache>>

\* getTargetTab(tabId, sessionId): the outcomes of one call, each the tab
\* returned (none when it throws) and the window it binds the session to
getTargetTab(b, sw, tabs, tabId, sid) ==
  LET wid == getWindowIdForSession(sw, sid)
      Outcome(ok, found, bind) == [ok |-> ok, tabs |-> found, bind |-> bind]
  IN
  IF tabId # NoTab
  THEN IF \A t \in tabs : t[1] # tabId
       THEN {Outcome(FALSE, {}, NullWindow)}      \* chrome.tabs.get throws
       ELSE LET tab == CHOOSE t \in tabs : t[1] = tabId IN
            IF wid # NullWindow /\ tab[2] # wid
            THEN {Outcome(FALSE, {}, NullWindow)}
            ELSE IF sid # NoSession /\ wid = NullWindow
                 THEN IF b = "floating"
                      THEN {Outcome(FALSE, {}, NullWindow)}   \* ERR_NO_WINDOW
                      ELSE {Outcome(TRUE, {tab}, tab[2])}     \* auto-register
                 ELSE {Outcome(TRUE, {tab}, NullWindow)}
  ELSE IF wid # NullWindow
       THEN IF TabsQuery(tabs, wid) = {}
            THEN {Outcome(FALSE, {}, NullWindow)}
            ELSE {Outcome(TRUE, {t}, NullWindow) : t \in TabsQuery(tabs, wid)}
       ELSE IF sid # NoSession
            THEN {Outcome(FALSE, {}, NullWindow)}
            ELSE {Outcome(TRUE, {t}, NullWindow) : t \in tabs}

\* a route whose handler resolves its tab with getTargetTab, forwarded for a
\* session of WindowCache
ExtTargetTab(sid, tabId) ==
  /\ sid \in windowCache
  /\ \E r \in getTargetTab(build, sessionWindows, chromeTabs, tabId, sid) :
       sessionWindows' = IF r.bind # NullWindow
                         THEN [sessionWindows EXCEPT ![sid] = r.bind]
                         ELSE sessionWindows
  /\ tabsReply' = NoReply
  /\ UNCHANGED <<daemonVars, build, chromeTabs, clientSessions, windowCache>>

ExtNext ==
  \/ \E sid \in SessionIds, tabId \in BrowserTabIds \cup {NoTab} :
       ExtTargetTab(sid, tabId)
  \/ \E sid \in SessionIds : ExtCreateWindow(sid)
  \/ \E sid \in SessionIds : ExtNewTab(sid)
  \/ \E sid \in SessionIds : ExtGetTabs(sid)
  \/ \E wid \in BrowserWindowIds : ExtWindowRemoved(wid)

\* two clients have registered s1 and s2 and the extension has said hello
ExtInit ==
  /\ peers = TwoClients
  /\ observe = {}
  /\ connState = [w \in Conns |-> "open"]
  /\ clientSessions = <<NewSession("s1", 1), NewSession("s2", 2)>>
  /\ windowCache = {}
  /\ tabRouting = {}
  /\ extensionConnection = 3
  /\ pendingRequests = <<>>
  /\ requestIdCounter = 0
  /\ chromeProcess = FALSE
  /\ cmds = [k \in CmdIds |-> IdleCmd]
  /\ terminal = [k \in CmdIds |-> 0]
  /\ outA = <<>>
  /\ outC = <<>>
  /\ lastBranch = ""
  /\ hist = HistReset
  /\ build \in Builds
  /\ BrowserStart
  /\ ClientStart
  /\ Running

ExtSpec == ExtInit /\ [][ExtNext]_vars

\* ---------------------------------------------------------------- shutdown
\* the websockets stopServer calls close(1000, ...) on: session.ws of every
\* session, and extensionConnection.ws
ClosedByStop(cs, ext) ==
  {cs[i].ws : i \in DOMAIN cs} \cup ({ext} \ {NoWs})

\* the sessions websocket.close unregisters when it runs for each of the
\* session connections
FirstSessions(cs) ==
  {FirstSessionOf(cs, w) : w \in {cs[i].ws : i \in DOMAIN cs}}

\* process.exit: what becomes of a websocket of state st; normal tells that
\* stopServer has closed it
AtExit(st, normal) ==
  IF st = "open" THEN (IF normal THEN "closed1000" ELSE "dropped")
  ELSE IF st = "broken" THEN "dropped"
  ELSE IF st = "closing4000" THEN "closed"
  ELSE st

\* SIGINT, SIGTERM or an uncaught exception: shutdown().  stopServer closes
\* the connections and clears the registry, removePidFile follows, and
\* process.exit ends the process before any rejected handleCommand resumes.
\* handlers tells whether the runtime calls websocket.close from within
\* ws.close(), that is before the exit, or not at all.
Shutdown(d, handlers) ==
  /\ Idle
  /\ daemons[d].pc = "serving"
  /\ connState' =
       [w \in Conns |->
          AtExit(connState[w],
                 w \in ClosedByStop(clientSessions, extensionConnection))]
  /\ clientSessions' = <<>>
  /\ windowCache' = IF handlers
                    THEN windowCache \ FirstSessions(clientSessions)
                    ELSE windowCache
  /\ tabRouting' = IF handlers
                   THEN {p \in tabRouting :
                           p[2] \notin FirstSessions(clientSessions)}
                   ELSE tabRouting
  /\ pendingRequests' = IF handlers /\ extensionConnection # NoWs
                        THEN <<>>
                        ELSE pendingRequests
  /\ extensionConnection' = NoWs
  /\ hist' = HistForgetAll(hist, SessionIds)
  /\ pidFile' = NoPid
  /\ daemons' = [daemons EXCEPT ![d] = DaemonAt("exited")]
  /\ Emit(<<>>, <<>>)
  /\ lastBranch' = "shutdown"
  /\ UNCHANGED <<mcp, browserVars, peers, observe, requestIdCounter,
                 chromeProcess, cmds>>

\* ---------------------------------------------------------------- other input
\* websocket.message: JSON.parse throws, the catch logs the error
Malformed(w) ==
  /\ Idle
  /\ connState[w] = "open"
  /\ Emit(<<>>, <<>>)
  /\ lastBranch' = "parse_error"
  /\ UNCHANGED <<hostVars, browserVars, peers, observe, hist, connState,
                 clientSessions, windowCache, tabRouting, extensionConnection,
                 pendingRequests, requestIdCounter, chromeProcess, cmds>>

\* a message of a type no switch knows: the default case of
\* handleClientMessage or of handleExtensionMessage logs it
UnknownType(w) ==
  /\ Idle
  /\ connState[w] = "open"
  /\ Emit(<<>>, <<>>)
  /\ lastBranch' = "unknown_type"
  /\ UNCHANGED <<hostVars, browserVars, peers, observe, hist, connState,
                 clientSessions, windowCache, tabRouting, extensionConnection,
                 pendingRequests, requestIdCounter, chromeProcess, cmds>>

\* a message of no known type with an id and a command: handleLegacyMessage
\* settles the pending request of that id with message.result or
\* message.error
Legacy(w, r) ==
  /\ Idle
  /\ connState[w] = "open"
  /\ r \in DOMAIN pendingRequests
  /\ \/ \E payload \in WindowIds \cup {NullWindow} : Reply(r, TRUE, payload, "")
     \/ \E text \in AgentTexts \ {""} : Reply(r, FALSE, NullWindow, text)

\* the socket of the bound agent dies; its close event is yet to come, and
\* until then every send on it throws
Break(w) ==
  /\ Idle
  /\ extensionConnection = w
  /\ connState[w] = "open"
  /\ connState' = [connState EXCEPT ![w] = "broken"]
  /\ Emit(<<>>, <<>>)
  /\ lastBranch' = ""
  /\ UNCHANGED <<hostVars, browserVars, peers, observe, hist, clientSessions,
                 windowCache, tabRouting, extensionConnection, pendingRequests,
                 requestIdCounter, chromeProcess, cmds>>

\* the catch of a failed send drops the agent binding
SendFailedUnbinds(ext) == NoWs

\* catch (e) { } of a send to the agent: the binding stays as it is
SendFailed(ext) == ext

\* the callback of extensionPingInterval
Ping ==
  /\ Idle
  /\ extensionConnection # NoWs
  /\ IF connState[extensionConnection] = "broken"
     THEN /\ extensionConnection' = SendFailed(extensionConnection)
          /\ Emit(<<>>, <<>>)
          /\ lastBranch' = "ping_failed"
     ELSE /\ UNCHANGED extensionConnection
          /\ Emit(<<AgentMsg("ping", NoReqId, "", "", NoParam, <<>>)>>, <<>>)
          /\ lastBranch' = ""
  /\ UNCHANGED <<hostVars, browserVars, peers, observe, hist, connState,
                 clientSessions, windowCache, tabRouting, pendingRequests,
                 requestIdCounter, chromeProcess, cmds>>

\* the daemon with a dying agent socket, the ping timer, and the signal
\* that ends its process
WireNext ==
  \/ Next
  \/ \E w \in Conns : Break(w)
  \/ Ping
  \/ \E d \in Daemons, handlers \in BOOLEAN : Shutdown(d, handlers)

WireInit == Start /\ observe = {}

WireSpec == WireInit /\ [][WireNext]_vars

\* the daemon with the input that the other specifications leave out:
\* messages it does not understand, and the signal that ends its process
StopNext ==
  \/ Next
  \/ \E w \in Conns : Malformed(w)
  \/ \E w \in Conns : UnknownType(w)
  \/ \E w \in Conns, r \in ReqIds : Legacy(w, r)
  \/ \E d \in Daemons, handlers \in BOOLEAN : Shutdown(d, handlers)

StopInit == Start /\ observe = {}

StopSpec == StopInit /\ [][StopNext]_vars

\* ---------------------------------------------------------------- startup
\* main() of daemon/index.ts, one action per system call: the daemon
\* processes of one host share PID_FILE and the port and run side by side.
wsVars == <<peers, observe, connState, clientSessions, windowCache, tabRouting,
            extensionConnection, pendingRequests, requestIdCounter,
            chromeProcess, cmds, terminal, outA, outC, hist>>

\* process.kill(pid, 0) does not throw
Live(ds, pid) == pid # NoPid /\ ds[pid].pc \notin {"new", "exited"}

PortTaken(ds) == \E e \in Daemons : ds[e].pc = "serving"

\* if (existsSync(PID_FILE))
CheckPidFile(d) ==
  /\ daemons[d].pc = "new"
  /\ daemons' = [daemons EXCEPT ![d] =
                   DaemonAt(IF pidFile # NoPid THEN "read" ELSE "write")]
  /\ UNCHANGED <<mcp, wsVars, browserVars, lastBranch, pidFile>>

\* JSON.parse(await Bun.file(PID_FILE).text()); a file that is gone by now
\* throws, and the outer catch calls removePidFile
ReadPidFile(d) ==
  /\ daemons[d].pc = "read"
  /\ daemons' = [daemons EXCEPT ![d] =
                   IF pidFile = NoPid THEN DaemonAt("write")
                   ELSE [pc |-> "kill", seen |-> pidFile]]
  /\ UNCHANGED <<mcp, wsVars, browserVars, lastBranch, pidFile>>

\* process.kill(data.pid, 0); process.exit(1) when it does not throw
ProbePid(d) ==
  /\ daemons[d].pc = "kill"
  /\ daemons' = [daemons EXCEPT ![d] =
                   DaemonAt(IF Live(daemons, daemons[d].seen) THEN "exited"
                            ELSE "unlink")]
  /\ UNCHANGED <<mcp, wsVars, browserVars, lastBranch, pidFile>>

\* removePidFile of the inner catch: the file that is there now is removed
RemoveStale(d) ==
  /\ daemons[d].pc = "unlink"
  /\ pidFile' = NoPid
  /\ daemons' = [daemons EXCEPT ![d] = DaemonAt("write")]
  /\ UNCHANGED <<mcp, wsVars, browserVars, lastBranch>>

\* writePidFile
WritePidFile(d) ==
  /\ daemons[d].pc = "write"
  /\ pidFile' = d
  /\ daemons' = [daemons EXCEPT ![d] = DaemonAt("bind")]
  /\ UNCHANGED <<mcp, wsVars, browserVars, lastBranch>>

\* await startServer(): Bun.serve throws when the port is in use, and the
\* catch calls removePidFile and process.exit(1)
StartServer(d) ==
  /\ daemons[d].pc = "bind"
  /\ IF PortTaken(daemons)
     THEN /\ pidFile' = NoPid
          /\ daemons' = [daemons EXCEPT ![d] = DaemonAt("exited")]
          /\ UNCHANGED lastBranch
     ELSE /\ daemons' = [daemons EXCEPT ![d] = DaemonAt("serving")]
          /\ lastBranch' = ""
          /\ UNCHANGED pidFile
  /\ UNCHANGED <<mcp, wsVars, browserVars>>

\* SIGKILL or power loss: the process ends without running shutdown()
Crash(d) ==
  /\ daemons[d].pc = "serving"
  /\ daemons' = [daemons EXCEPT ![d] = DaemonAt("exited")]
  /\ lastBranch' = "shutdown"
  /\ UNCHANGED <<mcp, wsVars, browserVars, pidFile>>

PidNext ==
  \/ \E d \in Daemons : CheckPidFile(d)
  \/ \E d \in Daemons : ReadPidFile(d)
  \/ \E d \in Daemons : ProbePid(d)
  \/ \E d \in Daemons : RemoveStale(d)
  \/ \E d \in Daemons : WritePidFile(d)
  \/ \E d \in Daemons : StartServer(d)
  \/ \E d \in Daemons : Crash(d)
  \/ \E d \in Daemons, handlers \in BOOLEAN : Shutdown(d, handlers)

\* a host on which no daemon has been started yet
PidInit ==
  /\ Boot
  /\ peers = OneClient
  /\ observe = {}
  /\ build = "tabs"
  /\ BrowserStart
  /\ ClientStart
  /\ pidFile = NoPid
  /\ daemons = [d \in Daemons |-> DaemonAt("new")]

PidSpec == PidInit /\ [][PidNext]_vars

\* ---------------------------------------------------------------- client
\* connectToDaemon of the MCP client (connection.ts), one action per
\* callback.  wasConnected, connectionFailed and tryDaemonStart belong to the
\* connectToDaemon call that made the websocket; retryCount is module state.
\* ws.onopen: the daemon has accepted the connection; register is sent
McpOpen ==
  /\ mcp.pc = "connecting"
  /\ PortTaken(daemons)
  /\ mcp' = [mcp EXCEPT !.pc = "open", !.wasConnected = TRUE,
                         !.retryCount = 0]
  /\ UNCHANGED <<wsVars, browserVars, lastBranch, pidFile, daemons>>

\* handleDaemonMessage, case "registered"
McpRegistered ==
  /\ mcp.pc = "open"
  /\ PortTaken(daemons)
  /\ mcp' = [mcp EXCEPT !.pc = "registered", !.isRegistered = TRUE]
  /\ UNCHANGED <<wsVars, browserVars, lastBranch, pidFile, daemons>>

\* sendCommand on an open websocket with mySessionId set
McpSendCommand ==
  /\ mcp.pc \in {"open", "registered"}
  /\ mcp.pending < MaxCmds
  /\ mcp' = [mcp EXCEPT !.pending = @ + 1]
  /\ UNCHANGED <<wsVars, browserVars, lastBranch, pidFile, daemons>>

\* handleResponse, handleError or the timeout of one pending request
McpResponse ==
  /\ mcp.pc \in {"open", "registered"}
  /\ mcp.pending > 0
  /\ mcp' = [mcp EXCEPT !.pending = @ - 1]
  /\ UNCHANGED <<wsVars, browserVars, lastBranch, pidFile, daemons>>

\* ws.onclose, after ws.onerror when the connection was refused
McpClose(refused) ==
  /\ ~PortTaken(daemons)
  /\ IF refused THEN mcp.pc = "connecting"
                ELSE mcp.pc \in {"open", "registered"}
  /\ LET failed == mcp.connectionFailed \/ refused
         m == [mcp EXCEPT !.connectionFailed = failed,
                          !.isRegistered = FALSE, !.pending = 0]
     IN mcp' =
          IF failed /\ ~m.wasConnected /\ m.tryDaemonStart
          THEN [m EXCEPT !.pc = "starting"]
          ELSE IF m.wasConnected /\ m.retryCount < MAX_RETRIES
          THEN [m EXCEPT !.pc = "backoff",
                         !.delay = INITIAL_DELAY_MS * 2^m.retryCount,
                         !.retryCount = @ + 1]
          ELSE IF m.wasConnected
          THEN [m EXCEPT !.pc = "exited"]        \* process.exit(1)
          ELSE [m EXCEPT !.pc = "down"]          \* no branch applies
  /\ UNCHANGED <<wsVars, browserVars, lastBranch, pidFile, daemons>>

\* tryStartDaemon returns: attemptConnection(false), or reject, which the
\* catch of the timer callback logs
McpStartDaemon(success) ==
  /\ mcp.pc = "starting"
  /\ mcp' = IF success
            THEN [mcp EXCEPT !.pc = "connecting", !.tryDaemonStart = FALSE]
            ELSE [mcp EXCEPT !.pc = "down"]
  /\ UNCHANGED <<wsVars, browserVars, lastBranch, pidFile, daemons>>

\* the setTimeout of onclose fires: connectToDaemon()
McpTimer ==
  /\ mcp.pc = "backoff"
  /\ mcp' = [mcp EXCEPT !.pc = "connecting", !.wasConnected = FALSE,
                         !.connectionFailed = FALSE, !.tryDaemonStart = TRUE]
  /\ UNCHANGED <<wsVars, browserVars, lastBranch, pidFile, daemons>>

\* the callbacks that the client's event loop runs when their event is due
McpStep ==
  \/ McpOpen
  \/ McpRegistered
  \/ \E refused \in BOOLEAN : McpClose(refused)
  \/ \E success \in BOOLEAN : McpStartDaemon(success)
  \/ McpTimer

ClientNext ==
  \/ McpStep
  \/ McpSendCommand
  \/ McpResponse
  \/ PidNext

\* daemon 1 serves and the client is registered with it
ClientInit ==
  /\ Boot
  /\ Running
  /\ peers = OneClient
  /\ observe = {}
  /\ build = "tabs"
  /\ sessionWindows = [sid \in SessionIds |-> NullWindow]
  /\ chromeTabs = {}
  /\ tabsReply = NoReply
  /\ mcp = McpUp

ClientSpec == ClientInit /\ [][ClientNext]_vars /\ WF_vars(McpStep)

\* ---------------------------------------------------------------- hub
\* The hub of server/ (websocket.ts, handlers.ts), the other program of the
\* repository that keeps tabRouting: clientSessions stands for its
\* proxySessions and windowCache for its proxyWindowCache.
hubRest == <<hostVars, browserVars, peers, observe, hist, pendingRequests,
             requestIdCounter, chromeProcess, cmds, terminal, outA, outC,
             lastBranch>>

\* message type "register_proxy_session"
HubRegisterProxy(w, sid) ==
  /\ connState[w] = "open" /\ peers[w] = "client"
  /\ clientSessions' = registerClient(clientSessions, sid, w)
  /\ UNCHANGED <<hubRest, connState, windowCache, tabRouting,
                 extensionConnection>>

\* message type "unregister_proxy_session"
HubUnregisterProxy(w, sid) ==
  /\ connState[w] = "open" /\ peers[w] = "client"
  /\ HasSession(clientSessions, sid)
  /\ clientSessions' = unregisterClientSessions(clientSessions, sid)
  /\ windowCache' = windowCache \ {sid}
  /\ UNCHANGED <<hubRest, connState, tabRouting, extensionConnection>>

\* websocket.close of the hub
HubClose(w) ==
  /\ connState[w] = "open"
  /\ connState' = [connState EXCEPT ![w] = "closed"]
  /\ IF extensionConnection = w
     THEN /\ extensionConnection' = NoWs
          /\ UNCHANGED <<clientSessions, windowCache>>
     ELSE /\ UNCHANGED extensionConnection
          /\ IF \E i \in DOMAIN clientSessions : clientSessions[i].ws = w
             THEN LET sid == FirstSessionOf(clientSessions, w) IN
                  /\ clientSessions' =
                       unregisterClientSessions(clientSessions, sid)
                  /\ windowCache' = windowCache \ {sid}
             ELSE UNCHANGED <<clientSessions, windowCache>>
  /\ UNCHANGED <<hubRest, tabRouting>>

\* message type "hello" of the hub: bound if no extension is bound
HubHello(w) ==
  /\ connState[w] = "open" /\ peers[w] = "agent"
  /\ extensionConnection = NoWs
  /\ extensionConnection' = w
  /\ UNCHANGED <<hubRest, connState, clientSessions, windowCache, tabRouting>>

\* message type "select_session": tabRouting.set(tabId, sessionId)
handleSelectSession(t, sid) ==
  /\ extensionConnection # NoWs
  /\ HasSession(clientSessions, sid)
  /\ tabRouting' = {p \in tabRouting : p[1] # t} \cup {<<t, sid>>}
  /\ UNCHANGED <<hubRest, connState, clientSessions, windowCache,
                 extensionConnection>>

\* message type "tab_closed" of the hub
HubTabClosed(t) ==
  /\ extensionConnection # NoWs
  /\ \E p \in tabRouting : p[1] = t
  /\ tabRouting' = {p \in tabRouting : p[1] # t}
  /\ UNCHANGED <<hubRest, connState, clientSessions, windowCache,
                 extensionConnection>>

HubNext ==
  \/ OpenConn
  \/ \E w \in Conns, sid \in SessionIds : HubRegisterProxy(w, sid)
  \/ \E w \in Conns, sid \in SessionIds : HubUnregisterProxy(w, sid)
  \/ \E w \in Conns : HubClose(w)
  \/ \E w \in Conns : HubHello(w)
  \/ \E t \in TabIds, sid \in SessionIds : handleSelectSession(t, sid)
  \/ \E t \in TabIds : HubTabClosed(t)

\* the hub after construction, for two proxies and one extension
HubInit ==
  /\ Boot /\ Running /\ BrowserStart
  /\ ClientStart
  /\ build = "tabs"
  /\ peers = TwoClients
  /\ observe = {}

HubSpec == HubInit /\ [][HubNext]_vars

\* ---------------------------------------------------------------- fairness
\* The same daemon, with the delivered terminal messages counted instead of
\* the messages recorded.  A turn ends;
\* while timers are due again and again, the event loop runs one of them:
\* setTimeout of sendCommandToExtension, and the deadline of the polling loop
\* of ensureExtensionConnected.
LiveInit == Start /\ observe = {"count"}

TimerFires ==
  \/ \E k \in CmdIds : ConnectTimeout(k)
  \/ \E r \in ReqIds : RequestTimeout(r)

Fairness == WF_vars(Return) /\ SF_vars(TimerFires)

LiveSpec == LiveInit /\ [][Next]_vars /\ Fairness

\* setInterval: while the daemon runs, the callback of staleCheckInterval
\* is run again and again
SweepFairness == WF_vars(Return) /\ SF_vars(StaleCheck)

SweepSpec == LiveInit /\ [][Next]_vars /\ SweepFairness

TypeOK ==
  /\ peers \in [Conns -> {"client", "agent"}]
  /\ observe \subseteq {"agent", "client", "count", "hist", "gone"}
  /\ connState \in [Conns -> {"new", "open", "closing4000", "closed",
                               "closed1000", "dropped", "broken"}]
  /\ windowCache \subseteq SessionIds
  /\ extensionConnection \in Conns \cup {NoWs}
  /\ DOMAIN pendingRequests \subseteq ReqIds
  /\ requestIdCounter \in 0..MaxReq
  /\ \A k \in CmdIds : terminal[k] \in 0..2

\* ---------------------------------------------------------------- properties
IsRoute(m) == m.type = "route"

IsClientRoute(m) == IsRoute(m) /\ m.command \in Commands

IsCreateRoute(m) == IsRoute(m) /\ m.command = "create_window"

Received(k) == cmds[k].pc # "none"

InFlight(k) == cmds[k].pc \notin {"none", "done"}

\* handleCommand k ends in this step
Completes(k) == cmds[k].pc # "done" /\ cmds'[k].pc = "done"

\* the connection that sent command k is open when handleCommand k ends
OriginOpen(k) == cmds[k].pc = "none" \/ connState[cmds[k].ws] = "open"

\* C1 as written: every command received gets exactly one terminal message
\* with its reqId on the connection that sent it: never more than one, and,
\* the timers being fair, eventually one.
C1_ExactlyOneTerminal ==
  /\ [](\A k \in CmdIds : terminal[k] <= 1)
  /\ []<>(\A k \in CmdIds : Received(k) => terminal[k] = 1)

\* C1 amended: every command received is eventually completed; when it
\* completes, exactly one terminal message with its reqId is delivered if the
\* connection that sent it is still open and none if that connection has
\* closed; never more than one is delivered.
C1_OneTerminalWhileOpen ==
  /\ [](\A k \in CmdIds : /\ terminal[k] <= 1
                           /\ cmds[k].pc # "done" => terminal[k] = 0)
  /\ [][\A k \in CmdIds :
          Completes(k) => terminal'[k] = IF OriginOpen(k) THEN 1 ELSE 0]_vars
  /\ []<>(\A k \in CmdIds : cmds[k].pc \in {"none", "done"})

\* one command answered, the other one completed after its client had gone
C1_Witness ==
  \E j, k \in CmdIds :
    /\ cmds[j].pc = "done" /\ terminal[j] = 1
    /\ cmds[k].pc = "done" /\ terminal[k] = 0

\* C2: whenever a route carrying a client command of session S is sent, S is
\* a registered session with a non-null windowId.
C2_RouteOnlyForBoundSession ==
  \A i \in DOMAIN outA :
    IsClientRoute(outA[i]) =>
      /\ HasSession(clientSessions, outA[i].sessionId)
      /\ GetSession(clientSessions, outA[i].sessionId).windowId # NullWindow

\* C3: once a create_window reply carrying a windowId has been processed for
\* S, no create_window route is sent for S until S is unregistered, a
\* window_closed for S arrives or a hello is accepted.
C3_NoSecondCreateWindow ==
  [][\A i \in DOMAIN outA' :
       IsCreateRoute(outA'[i]) => outA'[i].sessionId \notin hist.created]_vars

\* the reply to a hello is on the wire
HelloAccepted == \E i \in DOMAIN outA : outA[i].type = "welcome"

AllWindowsCleared ==
  /\ \A i \in DOMAIN clientSessions : clientSessions[i].windowId = NullWindow
  /\ windowCache = {}
  /\ tabRouting = {}

\* handleCommand k sends the client's command without a create_window of its own
ForwardsDirectly(k) ==
  /\ cmds[k].pc \in {"none", "waitAgent"}
  /\ cmds'[k].pc = "waitResult"
  /\ \E i \in DOMAIN outA' :
       IsClientRoute(outA'[i]) /\ outA'[i].sessionId = cmds'[k].sessionId

C5_WindowClosedClearsCache ==
  [][\A sid \in SessionIds :
       WindowClosed(sid) =>
         /\ sid \notin windowCache'
         /\ \A i \in DOMAIN clientSessions' :
              clientSessions'[i].sessionId = sid =>
                clientSessions'[i].windowId = NullWindow]_vars

\* the bound agent connection closes in this step
AgentCloses ==
  /\ extensionConnection # NoWs
  /\ connState[extensionConnection] # "closed"
  /\ connState'[extensionConnection] = "closed"

\* C6: when the bound agent connection closes, every pending request is
\* rejected and removed in the step in which the agent becomes absent; no
\* pending request made under another agent connection than the bound one is
\* ever in the table.
C6_PendingDieWithAgent ==
  /\ [](\A r \in DOMAIN pendingRequests :
          pendingRequests[r].agent = extensionConnection)
  /\ [][AgentCloses =>
          /\ extensionConnection' = NoWs
          /\ pendingRequests' = <<>>
          /\ \A r \in DOMAIN pendingRequests :
               /\ cmds'[pendingRequests[r].cmd].pc = "done"
               /\ \E i \in DOMAIN outC' :
                    /\ outC'[i].type = "error"
                    /\ outC'[i].reqId = cmds[pendingRequests[r].cmd].reqId
                    /\ outC'[i].message = "Extension disconnected"]_vars

\* two requests rejected by one close of the agent connection
C6_Witness ==
  /\ extensionConnection = NoWs
  /\ pendingRequests = <<>>
  /\ Len(outC) = 2
  /\ \A i \in DOMAIN outC : outC[i].message = "Extension disconnected"

\* C7: the bound agent is never replaced while it is bound, and a hello on
\* another connection closes that connection with 4000 and changes neither
\* the bound agent, the pending table, the sessions, WindowCache nor
\* TabRoutes.
C7_DuplicateHelloRejected ==
  /\ [][extensionConnection # NoWs =>
          extensionConnection' \in {extensionConnection, NoWs}]_vars
  /\ [][\A w \in Conns :
          (lastBranch' = "hello_rejected" /\ connState'[w] # connState[w]) =>
             /\ w # extensionConnection
             /\ extensionConnection # NoWs
             /\ connState'[w] = "closing4000"
             /\ UNCHANGED <<extensionConnection, pendingRequests,
                            clientSessions, windowCache, tabRouting>>]_vars
  /\ [][\A w \in Conns :
          HelloDuplicate(w) => lastBranch' = "hello_rejected"]_vars

\* a second hello rejected while a request is pending and a window is bound
C7_Witness ==
  /\ lastBranch = "hello_rejected"
  /\ \E w \in Conns : connState[w] = "closing4000"
  /\ pendingRequests # <<>>
  /\ windowCache # {}

\* a route_result or error arrives whose reqId is not in the pending table
UnknownReply ==
  \E r \in ReqIds \cup {NoReqId} :
    /\ r \notin DOMAIN pendingRequests
    /\ RouteResult(r) \/ AgentError(r)

\* C8: a route_result or error whose reqId is not in the pending table
\* changes no state of the daemon and sends nothing.
C8_UnknownReplyDropped ==
  /\ [][UnknownReply => lastBranch' = "unknown_reqId"]_vars
  /\ [][lastBranch' = "unknown_reqId" =>
          /\ outC' = <<>>
          /\ outA' = <<>>
          /\ UNCHANGED <<connState, clientSessions, windowCache, tabRouting,
                         extensionConnection, pendingRequests,
                         requestIdCounter, chromeProcess, cmds,
                         terminal>>]_vars

\* a reply dropped while another request is pending and a session registered
C8_Witness ==
  /\ lastBranch = "unknown_reqId"
  /\ pendingRequests # <<>>
  /\ clientSessions # <<>>
  /\ requestIdCounter > Cardinality(DOMAIN pendingRequests)

\* message m answers command k, which was received in an earlier step
AnswersAwaiting(m, k) ==
  /\ InFlight(k)
  /\ m.reqId = cmds[k].reqId
  /\ m.to = cmds[k].ws
  /\ m.sessionId = cmds[k].sessionId

\* message m answers command k, which is received in this step
AnswersArriving(m, k) ==
  /\ cmds[k].pc = "none"
  /\ m.reqId = ClientReqId(k)
  /\ \E w \in Conns, sid \in SessionIds, cm \in Commands, p \in ParamValues :
       Command(w, sid, cm, p) /\ m.to = w /\ m.sessionId = sid

\* response m carries the payload of the agent's reply to the route of k
FromReplyTo(m, k) ==
  \E r \in DOMAIN pendingRequests, payload \in WindowIds \cup {NullWindow} :
    /\ pendingRequests[r].cmd = k
    /\ cmds[k].pc = "waitResult"
    /\ Reply(r, TRUE, payload, "")
    /\ m.payload = payload

AgentReplies == \E r \in ReqIds : RouteResult(r) \/ AgentError(r)

C10_RouteCarriesOwnSession ==
  \A i \in DOMAIN outA :
    (IsRoute(outA[i]) /\ outA[i].reqId \in DOMAIN pendingRequests) =>
      LET c == cmds[pendingRequests[outA[i].reqId].cmd] IN
      /\ outA[i].sessionId = c.sessionId
      /\ outA[i].params = c.sessionId

\* the command of s1 came with params.sessionId of another session
C10_Witness ==
  \E i \in DOMAIN outA :
    /\ IsClientRoute(outA[i])
    /\ outA[i].reqId \in DOMAIN pendingRequests
    /\ LET c == cmds[pendingRequests[outA[i].reqId].cmd] IN
       c.params # NoParam /\ c.params # c.sessionId

\* session sid is registered, and by another connection than w
RegisteredByOther(w, sid) ==
  HasSession(clientSessions, sid) /\ GetSession(clientSessions, sid).ws # w

\* a command of connection w under session sid reaches the agent
Dispatches(w, sid) ==
  \E k \in CmdIds :
    /\ cmds[k].pc = "none"
    /\ cmds'[k].pc \in {"waitWindow", "waitResult"}
    /\ cmds'[k].ws = w /\ cmds'[k].sessionId = sid

\* C11: a command, keepalive or unregister received on a connection never
\* takes effect on a session that another connection registered: it
\* dispatches no command under, refreshes and tears down no such session.
C11_OwnSessionOnly ==
  [][\A w \in Conns, sid \in SessionIds :
       RegisteredByOther(w, sid) =>
         /\ Unregister(w, sid) => clientSessions' = clientSessions
         /\ Keepalive(w, sid) => clientSessions' = clientSessions
         /\ (\E cm \in Commands, p \in ParamValues : Command(w, sid, cm, p))
              => ~Dispatches(w, sid)]_vars

\* the window the extension has bound to session sid, if any
BoundWindows(sid) ==
  IF sessionWindows[sid] # NullWindow THEN {sessionWindows[sid]} ELSE {}

\* C12: a get_tabs of session A returns only tabs of A's own window, and
\* never a tab of the window bound to another session B.
C12_OwnTabsOnly ==
  \A t \in tabsReply.tabs :
    /\ t[2] \in BoundWindows(tabsReply.sessionId)
    /\ \A sid \in SessionIds \ {tabsReply.sessionId} :
         t[2] \notin BoundWindows(sid)

\* session sid leaves the registry in this step
Removed(sid) ==
  HasSession(clientSessions, sid) /\ ~HasSession(clientSessions', sid)

\* C13: when a session is removed (connection closed, unregistered or evicted
\* as stale), every pending request it originated is rejected and removed
\* from the pending table in that step.
C13_PendingDieWithSession ==
  [][\A sid \in SessionIds :
       Removed(sid) =>
         \A r \in DOMAIN pendingRequests :
           pendingRequests[r].sessionId = sid =>
             /\ r \notin DOMAIN pendingRequests'
             /\ cmds'[pendingRequests[r].cmd].pc = "done"]_vars

\* session sid is registered and its lastSeen is older than keepaliveTimeout
Stale(sid) ==
  HasSession(clientSessions, sid) /\ GetSession(clientSessions, sid).expired

\* the connection that registered sid closes in this step
OwnerCloses(sid) ==
  LET w == GetSession(clientSessions, sid).ws IN
  connState[w] # "closed" /\ connState'[w] = "closed"

\* C14: a registered session whose lastSeen has fallen behind
\* keepaliveTimeout is eventually unregistered, unless it is refreshed; the
\* sweeper removes its WindowCache entry and TabRoutes with it; and a
\* session whose lastSeen is within keepaliveTimeout leaves the registry only
\* by an unregister or by the close of its connection, never by the sweeper.
C14_StaleSwept ==
  /\ \A sid \in SessionIds : Stale(sid) ~> ~Stale(sid)
  /\ [][lastBranch' = "stale_removed" =>
          \A i \in DOMAIN clientSessions :
            LET s == clientSessions[i] IN
            IF s.expired
            THEN /\ ~HasSession(clientSessions', s.sessionId)
                 /\ s.sessionId \notin windowCache'
                 /\ \A p \in tabRouting' : p[2] # s.sessionId
            ELSE /\ HasSession(clientSessions', s.sessionId)
                 /\ GetSession(clientSessions', s.sessionId) = s]_vars
  /\ [][\A sid \in SessionIds :
          (Removed(sid) /\ ~Stale(sid)) =>
             \/ \E w \in Conns : Unregister(w, sid)
             \/ OwnerCloses(sid)]_vars

\* the sweeper has just removed s2 with its window, and kept s1
C14_Witness ==
  /\ lastBranch = "stale_removed"
  /\ ~HasSession(clientSessions, "s2")
  /\ HasSession(clientSessions, "s1")
  /\ windowCache = {"s1"}
  /\ ~Stale("s1")

\* request r carries the forwarded command of a client
Forwarded(r) ==
  /\ r \in DOMAIN pendingRequests
  /\ cmds[pendingRequests[r].cmd].pc = "waitResult"

\* the client of request r is sent an error with its reqId and this code
ErrorFor(r, code) ==
  \E i \in DOMAIN outC' :
    /\ outC'[i].type = "error"
    /\ outC'[i].to = cmds[pendingRequests[r].cmd].ws
    /\ outC'[i].reqId = cmds[pendingRequests[r].cmd].reqId
    /\ outC'[i].code = code

\* C15: when the deadline of a forwarded command expires the client is sent
\* an error with its reqId and code REQUEST_TIMEOUT, and when the agent
\* connection closes while the request is in flight, one with code
\* AGENT_DISCONNECTED.
C15_CodeTellsCause ==
  /\ [][\A r \in ReqIds :
          (Forwarded(r) /\ RequestTimeout(r)) =>
             ErrorFor(r, "REQUEST_TIMEOUT")]_vars
  /\ [][\A r \in ReqIds :
          (Forwarded(r) /\ AgentCloses) =>
             ErrorFor(r, "AGENT_DISCONNECTED")]_vars

StableCodes ==
  {"AGENT_NOT_CONNECTED", "WINDOW_CREATION_FAILED", "REQUEST_TIMEOUT",
   "AGENT_DISCONNECTED", "CLIENT_DISCONNECTED", "SESSION_NOT_FOUND",
   "PROTOCOL_ERROR", "COMMAND_FAILED"}

\* C16: every error sent to a client carries a code of the stable set, and
\* a command that fails because no agent is bound is reported with
\* AGENT_NOT_CONNECTED.
C16_StableErrorCodes ==
  \A i \in DOMAIN outC :
    outC[i].type = "error" =>
      /\ outC[i].code \in StableCodes
      /\ outC[i].message =
           "Extension not connected and Chrome failed to start"
           => outC[i].code = "AGENT_NOT_CONNECTED"

\* the create_window of handleCommand k fails in this step: the agent
\* answers with an error or without a windowId, the request times out, or
\* the agent connection closes
LazyFails(k) ==
  /\ cmds[k].pc = "waitWindow"
  /\ \E r \in DOMAIN pendingRequests :
       /\ pendingRequests[r].cmd = k
       /\ \/ AgentError(r)
          \/ Idle /\ SomeOpen /\ Reply(r, TRUE, NullWindow, "")
          \/ RequestTimeout(r)
          \/ AgentCloses

\* C17: when the lazy window creation of a command fails, the command ends
\* with an error WINDOW_CREATION_FAILED carrying its reqId, no route is sent,
\* and WindowCache and every windowId stay as they are; a command waiting
\* for its window ends in no other way.
C17_WindowFailureStops ==
  [][\A k \in CmdIds :
       (LazyFails(k) \/ (cmds[k].pc = "waitWindow" /\ Completes(k))) =>
          /\ cmds'[k].pc = "done"
          /\ \E i \in DOMAIN outC' :
               /\ outC'[i].type = "error"
               /\ outC'[i].code = "WINDOW_CREATION_FAILED"
               /\ outC'[i].to = cmds[k].ws
               /\ outC'[i].reqId = cmds[k].reqId
          /\ \A i \in DOMAIN outA' : ~IsRoute(outA'[i])
          /\ windowCache' = windowCache
          /\ clientSessions' = clientSessions]_vars

\* the agent answered a create_window without a windowId while the other
\* session has its window
C17_Witness ==
  /\ \E i \in DOMAIN outC :
       /\ outC[i].code = "WINDOW_CREATION_FAILED"
       /\ outC[i].message = "Window creation failed: no windowId returned"
  /\ outA = <<>>
  /\ windowCache # {}
  /\ \E k \in CmdIds : cmds[k].pc = "waitResult"

\* the agent answers the forwarded command of request r with an error
\* message whose payload.message is text
AgentFails(r, text) ==
  /\ Forwarded(r)
  /\ Idle /\ SomeOpen
  /\ Reply(r, FALSE, NullWindow, AgentErrorText(text))

\* C18: when the agent answers a forwarded command with an error, the
\* client that sent the command is sent one error with its own reqId, code
\* COMMAND_FAILED and the agent's message text; the command ends, and
\* nothing is sent to the agent: no retry.
C18_AgentErrorPassedOn ==
  [][\A r \in ReqIds, text \in AgentTexts :
       AgentFails(r, text) =>
         LET c == cmds[pendingRequests[r].cmd] IN
         /\ Len(outC') = 1
         /\ outC'[1].type = "error"
         /\ outC'[1].to = c.ws
         /\ outC'[1].reqId = c.reqId
         /\ outC'[1].sessionId = c.sessionId
         /\ outC'[1].code = "COMMAND_FAILED"
         /\ text # "" => outC'[1].message = text
         /\ outA' = <<>>
         /\ cmds'[pendingRequests[r].cmd].pc = "done"
         /\ r \notin DOMAIN pendingRequests'
         /\ requestIdCounter' = requestIdCounter]_vars

\* the agent's error E1 has been passed on while another request is pending
C18_Witness ==
  /\ \E i \in DOMAIN outC :
       outC[i].code = "COMMAND_FAILED" /\ outC[i].message = "E1"
  /\ pendingRequests # <<>>

\* C19: a command whose sessionId is not in the registry sends nothing to
\* the agent, neither create_window nor the command, and (an agent being
\* bound, so that no other precondition fails) is answered with an error
\* SESSION_NOT_FOUND.
C19_UnknownSessionRejected ==
  [][\A w \in Conns, sid \in SessionIds, cm \in Commands, p \in ParamValues :
       (~HasSession(clientSessions, sid) /\ Command(w, sid, cm, p)) =>
          /\ outA' = <<>>
          /\ extensionConnection # NoWs =>
               \E i \in DOMAIN outC' :
                 /\ outC'[i].type = "error"
                 /\ outC'[i].to = w
                 /\ outC'[i].code = "SESSION_NOT_FOUND"]_vars

\* the session list or a window binding changes in this step
SnapshotChanges ==
  getSessionList(clientSessions') # getSessionList(clientSessions)

\* C20: while an agent is bound, every change of the session list or of a
\* window binding comes, in the turn that makes it, with a sessions message
\* to the agent that carries the new snapshot; the last sessions message the
\* agent received then matches the registry whenever a later route is sent.
C20_SnapshotFollowsChange ==
  [][(extensionConnection # NoWs /\ extensionConnection' # NoWs
      /\ SnapshotChanges) =>
        \E i \in DOMAIN outA' :
          /\ outA'[i].type = "sessions"
          /\ outA'[i].sessions = getSessionList(clientSessions')]_vars

\* connection w delivers a client message for session sid in this step
ClientMessageFor(w, sid) ==
  \/ Register(w, sid)
  \/ Keepalive(w, sid)
  \/ \E cm \in Commands, p \in ParamValues : Command(w, sid, cm, p)

\* C21: every inbound client message for a registered session, a command
\* or a register as well as a keepalive, brings the session's lastSeen to
\* the current time: after the message the session is registered and its
\* lastSeen is within keepaliveTimeout, so the sweeper does not evict a
\* client that keeps sending commands.
C21_EveryMessageRefreshes ==
  [][\A w \in Conns, sid \in SessionIds :
       (HasSession(clientSessions, sid) /\ ClientMessageFor(w, sid)) =>
          /\ HasSession(clientSessions', sid)
          /\ ~GetSession(clientSessions', sid).expired]_vars

\* session sid is registered with a bound window
HasWindow(sid) ==
  HasSession(clientSessions, sid)
  /\ GetSession(clientSessions, sid).windowId # NullWindow

\* a close_window route for session sid is sent to the agent in this step
ClosesWindowOf(sid) ==
  \E i \in DOMAIN outA' :
    /\ IsRoute(outA'[i])
    /\ outA'[i].command = "close_window"
    /\ outA'[i].sessionId = sid

\* C22: whenever a session with a bound window leaves the registry while an
\* agent is bound, by an unregister message, by the close of its connection
\* or by the sweeper, a close_window route for that session is sent to the
\* agent in that step without a pending request being made for it, and the
\* session, its WindowCache entry and its TabRoutes are gone after the step.
C22_RemovalClosesWindow ==
  [][\A sid \in SessionIds :
       (Removed(sid) /\ HasWindow(sid) /\ extensionConnection # NoWs) =>
          /\ ClosesWindowOf(sid)
          /\ DOMAIN pendingRequests' \subseteq DOMAIN pendingRequests
          /\ sid \notin windowCache'
          /\ \A p \in tabRouting' : p[2] # sid]_vars

\* the daemon shuts down in this step
ShutsDown == \E d \in Daemons, handlers \in BOOLEAN : Shutdown(d, handlers)

\* C23: on shutdown every connection that is open, a client's or the
\* agent's, is closed with the normal close code, every pending request is
\* rejected and the pending table is empty afterwards, and so is the session
\* registry.
C23_ShutdownClosesAll ==
  [][ShutsDown =>
       /\ \A w \in Conns :
            connState[w] = "open" => connState'[w] = "closed1000"
       /\ pendingRequests' = <<>>
       /\ clientSessions' = <<>>]_vars

\* C26: a daemon that finds the PID file naming a live process exits
\* without serving, one that finds it naming a dead process removes it and
\* goes on to write its own; and for any interleaving of startups and
\* shutdowns, whenever a daemon is serving the PID file exists and names it.
C26_PidFileNamesServer ==
  /\ [](\A d \in Daemons : daemons[d].pc = "serving" => pidFile = d)
  /\ [][\A d \in Daemons :
          ProbePid(d) =>
            IF Live(daemons, daemons[d].seen)
            THEN daemons'[d].pc = "exited"
            ELSE daemons'[d].pc = "unlink"]_vars

\* connection w sends a message that is not valid JSON, or one that is
\* none of hello, register, command, keepalive, unregister and none of the
\* agent's messages
NotUnderstood(w) ==
  \/ Malformed(w)
  \/ UnknownType(w)
  \/ \E r \in ReqIds : Legacy(w, r)

\* C24: a connection that sends malformed JSON or a message of none of the
\* protocol's types is closed with a protocol error, and the message changes
\* neither the sessions, the pending requests nor the agent binding.
C24_ProtocolErrorCloses ==
  [][\A w \in Conns :
       NotUnderstood(w) =>
          /\ connState'[w] = "closing_protocol_error"
          /\ UNCHANGED <<clientSessions, pendingRequests,
                         extensionConnection>>]_vars

\* command k is received in this step
Arrives(k) == cmds[k].pc = "none" /\ cmds'[k].pc # "none"

\* C25: a command that arrives while no agent is bound waits for one; if
\* an agent binds within agentConnectTimeout the command goes on to window
\* creation and forwarding, and the waiting command fails only when the wait
\* ends with the agent still absent, nothing having been sent to the agent.
C25_WaitsForAgent ==
  /\ [][\A k \in CmdIds :
          (Arrives(k) /\ extensionConnection = NoWs) =>
             cmds'[k].pc = "waitAgent"]_vars
  /\ [][\A k \in CmdIds :
          (cmds[k].pc = "waitAgent" /\ cmds'[k].pc # "waitAgent") =>
             IF extensionConnection # NoWs
             THEN /\ cmds'[k].pc \in {"waitWindow", "waitResult"}
                  /\ \E i \in DOMAIN outA' : IsRoute(outA'[i])
             ELSE /\ cmds'[k].pc = "done"
                  /\ outA' = <<>>
                  /\ \E i \in DOMAIN outC' :
                       /\ outC'[i].type = "error"
                       /\ outC'[i].reqId = cmds[k].reqId]_vars

\* C27: in every reachable state a session with a windowId has an agent
\* bound, and the windowId came with a create_window reply processed since
\* the hello that bound this agent; when no agent is bound, WindowCache is
\* empty and every windowId is null.
C27_WindowNeedsAgent ==
  /\ \A i \in DOMAIN clientSessions :
       clientSessions[i].windowId # NullWindow =>
         /\ extensionConnection # NoWs
         /\ clientSessions[i].sessionId \in hist.made
  /\ extensionConnection = NoWs => windowCache = {}

\* every session of the list has windowId null and status pending
AllPending(list) ==
  \A i \in DOMAIN list :
    list[i].windowId = NullWindow /\ list[i].status = "pending"

\* C28: a hello that is accepted clears every window binding and binds the
\* agent, and the daemon then sends on that connection a welcome followed by
\* a sessions broadcast and no route; the sessions listed in the welcome are
\* the registered ones, all with windowId null and status pending.
C28_HelloClearsThenGreets ==
  [][\A w \in Conns :
       Hello(w) =>
          /\ extensionConnection' = w
          /\ windowCache' = {}
          /\ tabRouting' = {}
          /\ \A i \in DOMAIN clientSessions' :
               clientSessions'[i].windowId = NullWindow
          /\ Len(outA') = 2
          /\ outA'[1].type = "welcome"
          /\ outA'[2].type = "sessions"
          /\ outA'[1].sessions = getSessionList(clientSessions')
          /\ outA'[2].sessions = getSessionList(clientSessions')
          /\ Len(outA'[1].sessions) = Len(clientSessions)
          /\ AllPending(outA'[1].sessions)
          /\ AllPending(outA'[2].sessions)]_vars

\* a hello has just been accepted while the forwarded command of a
\* registered session, whose window it has unbound, awaits its result
C28_Witness ==
  /\ Len(outA) = 2
  /\ outA[1].type = "welcome"
  /\ outA[1].sessions # <<>>
  /\ \E k \in CmdIds :
       /\ cmds[k].pc = "waitResult"
       /\ HasSession(clientSessions, cmds[k].sessionId)
       /\ cmds[k].sessionId \notin windowCache

\* C29: with time held fixed, the sweep run on the state that one sweep
\* has produced changes nothing: two sweeps back-to-back leave the session
\* registry, WindowCache and TabRoutes as one sweep leaves them.
C29_SweepIdempotent ==
  LET once == SweepSessions(clientSessions) IN
  /\ SweepSessions(once) = once
  /\ SweepCache(once, SweepCache(clientSessions, windowCache))
       = SweepCache(clientSessions, windowCache)
  /\ SweepTabs(once, SweepTabs(clientSessions, tabRouting))
       = SweepTabs(clientSessions, tabRouting)

\* two sessions have their windows and the later one is stale: the sweep
\* has something to remove and something to keep
C29_Witness ==
  /\ Len(clientSessions) = 2
  /\ windowCache = SessionIds
  /\ StaleSessions(clientSessions) = {clientSessions[2].sessionId}
  /\ SweepSessions(clientSessions) = <<clientSessions[1]>>

\* client connection w closes in this step
ClientCloses(w) ==
  /\ extensionConnection # w
  /\ connState[w] # "closed"
  /\ connState'[w] = "closed"

\* C30: when a client connection closes, every session whose connection
\* handle is that connection leaves the registry in that step, also when the
\* connection had registered more than one sessionId; no session is ever
\* registered on a closed connection.
C30_CloseRemovesAllSessions ==
  /\ [][\A w \in Conns :
          ClientCloses(w) =>
            \A i \in DOMAIN clientSessions' : clientSessions'[i].ws # w]_vars
  /\ [](\A i \in DOMAIN clientSessions :
          connState[clientSessions[i].ws] # "closed")

\* the socket of the bound agent is dead: every send to the agent fails
AgentSendFails ==
  extensionConnection # NoWs /\ connState[extensionConnection] = "broken"

\* C31: a send to the agent that fails, be it a ping, a route or a
\* broadcast, does not touch the agent binding, and a failed ping changes
\* neither the session registry nor the pending table; a handler whose send
\* fails leaves registry and pending table as it has set them: the session
\* registered stays registered and the pending request made stays pending.
\* The binding goes from bound to absent only in the close event of the
\* bound connection or at shutdown.
C31_SendFailureChangesNothing ==
  /\ [][(AgentSendFails /\ ~AgentCloses /\ ~ShutsDown) =>
          extensionConnection' = extensionConnection]_vars
  /\ [][lastBranch' = "ping_failed" =>
          UNCHANGED <<extensionConnection, clientSessions,
                      pendingRequests>>]_vars
  /\ [][\A w \in Conns, sid \in SessionIds :
          (AgentSendFails /\ Register(w, sid)) =>
             /\ HasSession(clientSessions', sid)
             /\ pendingRequests' = pendingRequests]_vars
  /\ [][\A k \in CmdIds :
          (AgentSendFails /\ Arrives(k)) =>
             /\ clientSessions' = clientSessions
             /\ \E r \in DOMAIN pendingRequests' \ DOMAIN pendingRequests :
                  pendingRequests'[r].cmd = k]_vars
  /\ [][(extensionConnection # NoWs /\ extensionConnection' = NoWs) =>
          (AgentCloses \/ ShutsDown)]_vars

\* a ping has just failed on the dead socket of the bound agent while a
\* session is registered and a request is pending
C31_Witness ==
  /\ lastBranch = "ping_failed"
  /\ extensionConnection # NoWs
  /\ connState[extensionConnection] = "broken"
  /\ clientSessions # <<>>
  /\ pendingRequests # <<>>

\* the command of handleCommand k is forwarded to the agent in this step
ForwardedNow(k) == cmds[k].pc # "waitResult" /\ cmds'[k].pc = "waitResult"

\* handleCommand k has received its command and not yet forwarded it: it
\* waits for the agent or for the session's window
Held(k) == cmds[k].pc \in {"waitAgent", "waitWindow"}

\* C32: the commands of one client session are forwarded to the agent in
\* the order in which the daemon received them, also while the agent is
\* connecting or the window is being created: a command is never forwarded
\* while an earlier command of the same session and connection is still held
\* back.
C32_ForwardedInArrivalOrder ==
  [][\A k1 \in CmdIds, k2 \in CmdIds :
       (/\ k1 < k2
        /\ Held(k1)
        /\ cmds[k2].sessionId = cmds[k1].sessionId
        /\ cmds[k2].ws = cmds[k1].ws) => ~ForwardedNow(k2)]_vars

\* C33: in every reachable state each TabRoute entry refers to a registered
\* session, and the entries are all removed when the agent connects again.
C33_TabRoutesRegistered ==
  /\ [](\A p \in tabRouting : HasSession(clientSessions, p[2]))
  /\ [][(extensionConnection = NoWs /\ extensionConnection' # NoWs) =>
          tabRouting' = {}]_vars

\* some other session is bound to window wid
OthersWindow(sid, wid) ==
  \E o \in SessionIds \ {sid} : sessionWindows[o] = wid

\* C34: when a session has no window, resolving a target tab for it fails
\* with an error, with or without an explicit tabId, and neither binds the
\* session to a window of another session nor returns a tab of one.
C34_NoWindowNoTab ==
  [][\A sid \in SessionIds, tabId \in BrowserTabIds \cup {NoTab} :
       (ExtTargetTab(sid, tabId) /\ sessionWindows[sid] = NullWindow)
         => /\ \A r \in getTargetTab(build, sessionWindows, chromeTabs,
                                      tabId, sid) :
                 /\ ~r.ok
                 /\ \A t \in r.tabs : ~OthersWindow(sid, t[2])
            /\ ~OthersWindow(sid, sessionWindows'[sid])]_vars

\* the reqIds in use: of the pending requests and of the routes in flight
IdsInUse ==
  DOMAIN pendingRequests
    \cup {outA[i].reqId : i \in {j \in DOMAIN outA : outA[j].type = "route"}}

\* C35: every reqId allocated for a route differs from every reqId allocated
\* before (all of which are at most the counter), so no two pending requests
\* share a reqId and a new pending request never overwrites an entry.
C35_FreshRequestIds ==
  /\ [](\A r \in IdsInUse : r <= requestIdCounter)
  /\ [][/\ requestIdCounter' >= requestIdCounter
        /\ \A r \in DOMAIN pendingRequests' :
             IF r \in DOMAIN pendingRequests
             THEN /\ pendingRequests'[r].sessionId = pendingRequests[r].sessionId
                  /\ pendingRequests'[r].cmd = pendingRequests[r].cmd
             ELSE r = requestIdCounter' /\ r > requestIdCounter]_vars

C35_Witness ==
  /\ Cardinality(DOMAIN pendingRequests) >= 2
  /\ requestIdCounter >= 3

\* C36: a sessionId is in WindowCache if and only if it is a registered
\* session whose windowId is non-null.
C36_CacheIffWindow ==
  \A sid \in SessionIds :
    sid \in windowCache
      <=> /\ HasSession(clientSessions, sid)
          /\ GetSession(clientSessions, sid).windowId # NullWindow

\* handleCommand k has sent a create_window for sid and awaits its result
CreatingWindow(k, sid) ==
  cmds[k].pc = "waitWindow" /\ cmds[k].sessionId = sid

\* C37: for any session at most one create_window request is outstanding at
\* a time, also when two commands of the session arrive before its window
\* exists.
C37_OneCreateWindow ==
  \A sid \in SessionIds : \A j, k \in CmdIds :
    (CreatingWindow(j, sid) /\ CreatingWindow(k, sid)) => j = k

\* handleCommand k sends the agent a route in this step
SendsRoute(k) ==
  /\ cmds'[k].pc \in {"waitWindow", "waitResult"}
  /\ cmds'[k].pc # cmds[k].pc

\* C38: once session S has been removed from the registry and not registered
\* again, the daemon sends the agent no further route carrying sessionId S,
\* neither a create_window nor the command of a Dispatch that was in
\* progress when S was removed.
C38_NoRouteForRemoved ==
  [][\A k \in CmdIds :
       SendsRoute(k) => cmds'[k].sessionId \notin hist.gone]_vars

\* no message can come from the bound agent: none is bound, or its
\* connection is not open
NoAgentOpen ==
  extensionConnection = NoWs \/ connState[extensionConnection] # "open"

\* the windowId of every registered session
WindowBindings(cs) == {<<cs[i].sessionId, cs[i].windowId>> : i \in DOMAIN cs}

\* C39: a route_result, error, tab_closed or window_closed received on a
\* connection other than the bound agent connection resolves or rejects no
\* pending request and changes no session's window binding.
C39_OnlyAgentReports ==
  [][(/\ NoAgentOpen
      /\ \/ \E r \in ReqIds \cup {NoReqId} : RouteResult(r) \/ AgentError(r)
         \/ \E t \in TabIds : TabClosed(t)
         \/ \E sid \in SessionIds : WindowClosed(sid))
       => /\ pendingRequests' = pendingRequests
          /\ WindowBindings(clientSessions') = WindowBindings(clientSessions)
    ]_vars

\* C40: after the client loses an established connection its pending
\* requests are all rejected and it retries with exponentially growing
\* delays, at most MAX_RETRIES times in a row; from then on it eventually is
\* registered again or has exited, and never stays disconnected with no
\* reconnect attempt scheduled.
C40_ClientRecovers ==
  /\ [][(\E refused \in BOOLEAN : McpClose(refused)) => mcp'.pending = 0]_vars
  /\ [](mcp.pc = "backoff" =>
          /\ mcp.retryCount <= MAX_RETRIES
          /\ mcp.delay = INITIAL_DELAY_MS * 2^(mcp.retryCount - 1))
  /\ (mcp.pc = "backoff") ~> (mcp.pc \in {"registered", "exited"})
====
